---- MODULE Spec2Model ----
\* Model of the yelp client's query container, search options and OAuth signer.
\* Go strings are modelled as sequences of byte values (all text used here is
\* ASCII), so that comparison, joining and percent-encoding are computed.
EXTENDS Integers, Sequences, FiniteSets, TLC

\* ------------------------------------------------------------------ bounds
\* most elements a caller puts into one container by option applications
MaxLen == 2
\* most elements a caller puts into the container it hands to SearchQuery
MaxSignLen == 9
\* most SearchQuery calls a caller makes with one container
MaxSearches == 1
\* most elements of a container whose options are tried with payloads at and
\* around the limits of their ranges
MaxPayloadLen == 1
\* most options in the argument list of one SearchOptions call
MaxOptions == 2
\* most bytes of a string made up to be percent-encoded
MaxEncodeLen == 2
\* most elements of a container that is serialized
MaxStringLen == 3
\* the elements of a container the caller sorts
MaxSortLen == 3
\* the greatest length a nonce is asked for
MaxNonceLen == 30
\* most elements of a container signed for clients of all credentials
MaxBaseLen == 2
\* most options applied in two orders
MaxOrderLen == 3

\* ------------------------------------------------------- string constants
\* "term"
searchIdentifierTerm == <<116, 101, 114, 109>>
\* "limit"
searchIdentifierLimit == <<108, 105, 109, 105, 116>>
\* "offset"
searchIdentifierOffset == <<111, 102, 102, 115, 101, 116>>
\* "sort"
searchIdentifierSort == <<115, 111, 114, 116>>
\* "category_filter"
searchIdentifierCategory == <<99, 97, 116, 101, 103, 111, 114, 121, 95, 102, 105, 108, 116, 101, 114>>
\* "radius_filter"
searchIdentifierRadius == <<114, 97, 100, 105, 117, 115, 95, 102, 105, 108, 116, 101, 114>>
\* "deals_filter"
searchIdentifierDeals == <<100, 101, 97, 108, 115, 95, 102, 105, 108, 116, 101, 114>>
\* "location"
searchIdentifierLocation == <<108, 111, 99, 97, 116, 105, 111, 110>>
\* "ll"
searchIdentifierCoordinates == <<108, 108>>
\* "cll"
searchIdentifierCoordinatesHint == <<99, 108, 108>>
\* "bounds"
searchIdentifierBounds == <<98, 111, 117, 110, 100, 115>>
\* "oauth_consumer_key"
oauthConsumerKey == <<111, 97, 117, 116, 104, 95, 99, 111, 110, 115, 117, 109, 101, 114, 95, 107, 101, 121>>
\* "oauth_nonce"
oauthNonce == <<111, 97, 117, 116, 104, 95, 110, 111, 110, 99, 101>>
\* "oauth_signature_method"
oauthSignatureMethod == <<111, 97, 117, 116, 104, 95, 115, 105, 103, 110, 97, 116, 117, 114, 101, 95, 109, 101, 116, 104, 111, 100>>
\* "oauth_timestamp"
oauthTimestamp == <<111, 97, 117, 116, 104, 95, 116, 105, 109, 101, 115, 116, 97, 109, 112>>
\* "oauth_token"
oauthToken == <<111, 97, 117, 116, 104, 95, 116, 111, 107, 101, 110>>
\* "oauth_signature"
oauthSignature == <<111, 97, 117, 116, 104, 95, 115, 105, 103, 110, 97, 116, 117, 114, 101>>
\* "HMAC-SHA1"
HmacSha1Name == <<72, 77, 65, 67, 45, 83, 72, 65, 49>>
\* "true"
StrTrue == <<116, 114, 117, 101>>
\* "false"
StrFalse == <<102, 97, 108, 115, 101>>
\* "GET"
MethodGet == <<71, 69, 84>>
\* "0123456789ABCDEF"
hexMap == <<48, 49, 50, 51, 52, 53, 54, 55, 56, 57, 65, 66, 67, 68, 69, 70>>
\* "abcdefghijklmnopqrstuvwxyzABCDEFGHIJKLMNOPQRSTUVWXYZ0123456789"
nonceCharacters == <<97, 98, 99, 100, 101, 102, 103, 104, 105, 106, 107, 108, 109, 110, 111, 112, 113, 114, 115, 116, 117, 118, 119, 120, 121, 122, 65, 66, 67, 68, 69, 70, 71, 72, 73, 74, 75, 76, 77, 78, 79, 80, 81, 82, 83, 84, 85, 86, 87, 88, 89, 90, 48, 49, 50, 51, 52, 53, 54, 55, 56, 57>>
\* the names of the eight categories: "active", "arts", "auto", "beautysvc",
\* "golf", "nightlife", "bars", "restaurants"
searchCategoryNames ==
  << <<97, 99, 116, 105, 118, 101>>,
     <<97, 114, 116, 115>>,
     <<97, 117, 116, 111>>,
     <<98, 101, 97, 117, 116, 121, 115, 118, 99>>,
     <<103, 111, 108, 102>>,
     <<110, 105, 103, 104, 116, 108, 105, 102, 101>>,
     <<98, 97, 114, 115>>,
     <<114, 101, 115, 116, 97, 117, 114, 97, 110, 116, 115>> >>

\* -------------------------------------------------------- string helpers
\* Go's < on strings: byte-wise lexicographic comparison
RECURSIVE StrLess(_, _)
StrLess(a, b) ==
  IF b = <<>> THEN FALSE
  ELSE IF a = <<>> THEN TRUE
  ELSE IF a[1] < b[1] THEN TRUE
  ELSE IF a[1] > b[1] THEN FALSE
  ELSE StrLess(Tail(a), Tail(b))

\* strings.Replace(s, " ", "+", -1)
ReplaceSpaces(s) == [i \in 1..Len(s) |-> IF s[i] = 32 THEN 43 ELSE s[i]]

\* strings.Join(list, sep)
RECURSIVE Join(_, _)
Join(list, sep) ==
  IF list = <<>> THEN <<>>
  ELSE IF Len(list) = 1 THEN list[1]
  ELSE list[1] \o sep \o Join(Tail(list), sep)

\* the decimal digits of a natural number
RECURSIVE Digits(_)
Digits(n) == IF n < 10 THEN <<48 + n>> ELSE Digits(n \div 10) \o <<48 + (n % 10)>>

\* strconv.Itoa / strconv.FormatInt(n, 10)
Itoa(n) == IF n < 0 THEN <<45>> \o Digits(0 - n) ELSE Digits(n)

\* A float64 is modelled by a whole number (of degrees), and the float64 that
\* is not a number by one number set apart for it.
NaN == 1000000

\* a < b on float64: false whenever either side is not a number
FloatLess(a, b) == a /= NaN /\ b /= NaN /\ a < b

\* "NaN"
StrNaN == <<78, 97, 78>>

\* strconv.FormatFloat(x, 'f', -1, 64) for the whole-degree values the model
\* uses as latitudes and longitudes: the digits with no decimal point
FormatFloat(x) == IF x = NaN THEN StrNaN ELSE Itoa(x)

\* ------------------------------------------------------------ the masks
searchBitMaskTerm == 1
searchBitMaskLimit == 2
searchBitMaskOffset == 4
searchBitMaskSort == 8
searchBitMaskCategory == 16
searchBitMaskRadius == 32
searchBitMaskDeals == 64
searchBitMaskLocation == 128

AllBits == {searchBitMaskTerm, searchBitMaskLimit, searchBitMaskOffset,
            searchBitMaskSort, searchBitMaskCategory, searchBitMaskRadius,
            searchBitMaskDeals, searchBitMaskLocation}

\* the flag test written without its mask: mask != 0
MaskHasAny(mask, bit) == mask /= 0

\* mask & bit != 0, for a one-bit constant
MaskHas(mask, bit) == (mask \div bit) % 2 = 1

\* a mask that takes no bit
MaskOrDropped(mask, bit) == mask

\* mask |= bit on a uint8, for a one-bit constant
MaskOr(mask, bit) == IF MaskHas(mask, bit) THEN mask ELSE (mask + bit) % 256

\* ------------------------------------------------------- the container
searchQueryElement(name, value) == [Name |-> name, Value |-> value]

\* the zero element of a freshly allocated backing array
ZeroElement == searchQueryElement(<<>>, <<>>)

\* var q SearchQuery: nil slice (no backing array), zero mask.  A slice is
\* its backing array (arr, whose length is the capacity) and its length.
EmptyQuery == [queries |-> [arr |-> <<>>, len |-> 0], mask |-> 0]

\* q.queries[0:len(q.queries)]: the elements the holder of q sees
Elements(sq) == SubSeq(sq.queries.arr, 1, sq.queries.len)

Cap(sq) == Len(sq.queries.arr)

\* the capacity the runtime gives a slice grown by one element
GrowCap(oldCap) == IF oldCap = 0 THEN 1 ELSE 2 * oldCap

\* append growing the slice without copying the old elements over
AppendSliceNoCopy(s, e) ==
  IF s.len < Len(s.arr)
  THEN [arr |-> [s.arr EXCEPT ![s.len + 1] = e], len |-> s.len + 1]
  ELSE [arr |-> [i \in 1..s.len |-> ZeroElement] \o <<e>> \o
                [i \in 1..(GrowCap(Len(s.arr)) - s.len - 1) |-> ZeroElement],
        len |-> s.len + 1]

\* append(slice, e)
AppendSlice(s, e) ==
  IF s.len < Len(s.arr)
  THEN [arr |-> [s.arr EXCEPT ![s.len + 1] = e], len |-> s.len + 1]
  ELSE [arr |-> SubSeq(s.arr, 1, s.len) \o <<e>> \o
                [i \in 1..(GrowCap(Len(s.arr)) - s.len - 1) |-> ZeroElement],
        len |-> s.len + 1]

\* func (q *SearchQuery) Append(name, value string)
SearchQueryAppend(sq, name, value) ==
  [sq EXCEPT !.queries = AppendSlice(sq.queries, searchQueryElement(name, value))]

\* Less comparing the values of the elements in place of their names
LessByValue(x, y) == StrLess(x.Value, y.Value)

\* func (q *SearchQuery) Less(i, j int) bool, on element values
Less(x, y) == StrLess(x.Name, y.Name)

\* ------------------------------------------------------------- errors
NoError == [Source |-> "", Kind |-> "nil"]
\* Error{source, "Attempting to set ... a second time"}
DuplicateError(source) == [Source |-> source, Kind |-> "duplicate"]
\* Error{source, "Invalid ..."} and "No search categories are specified"
InvalidError(source) == [Source |-> source, Kind |-> "invalid"]
\* ErrorEmbedded{source, text, e}
ErrorEmbedded(source, e) == [Source |-> source, Kind |-> "embedded", Embedded |-> e]

Result(sq, err) == [sq |-> sq, err |-> err]

\* func validLatitudeLongitude(latitude, longitude float64) bool
validLatitudeLongitude(latitude, longitude) ==
  ~(FloatLess(latitude, -90) \/ FloatLess(90, latitude)
    \/ FloatLess(longitude, -180) \/ FloatLess(180, longitude))

\* --------------------------------------------------- the option values
\* A SearchQuerier value: its dynamic type and its payload (integers and
\* strings, in declaration order of the type's fields).
Option(kind, ints, strs) == [kind |-> kind, ints |-> ints, strs |-> strs]

SearchCoordinates(lat, lon) == Option("SearchCoordinates", <<lat, lon>>, <<>>)
SearchLocation(name) == Option("SearchLocation", <<>>, <<name>>)
SearchLocationCoordinates(name, lat, lon) ==
  Option("SearchLocationCoordinates", <<lat, lon>>, <<name>>)
SearchBounds(swlat, swlon, nelat, nelon) ==
  Option("SearchBounds", <<swlat, swlon, nelat, nelon>>, <<>>)
SearchTerms(terms) == Option("SearchTerms", <<>>, terms)
SearchLimit(n) == Option("SearchLimit", <<n>>, <<>>)
SearchOffset(n) == Option("SearchOffset", <<n>>, <<>>)
SearchSort(n) == Option("SearchSort", <<n>>, <<>>)
SearchCategories(codes) == Option("SearchCategories", codes, <<>>)
SearchRadius(n) == Option("SearchRadius", <<n>>, <<>>)
\* a bool payload is carried as 1 (true) or 0 (false)
SearchDeals(b) == Option("SearchDeals", <<IF b THEN 1 ELSE 0>>, <<>>)

SearchSortBestMatched == 0
SearchSortHighestRated == 2
SearchCategoryActive == 0
SearchCategoryTotal == 8

\* "lat,lon"
LatLonString(lat, lon) == FormatFloat(lat) \o <<44>> \o FormatFloat(lon)

\* func (sl SearchCoordinates) Query(sq *SearchQuery) error
SearchCoordinatesQuery(o, sq) ==
  IF MaskHas(sq.mask, searchBitMaskLocation)
  THEN Result(sq, DuplicateError("SearchCoordinates"))
  ELSE IF validLatitudeLongitude(o.ints[1], o.ints[2]) = FALSE
  THEN Result(sq, InvalidError("SearchCoordinates"))
  ELSE LET a == SearchQueryAppend(sq, searchIdentifierCoordinates, LatLonString(o.ints[1], o.ints[2]))
       IN Result([a EXCEPT !.mask = MaskOr(@, searchBitMaskLocation)], NoError)

\* SearchLocation.Query assigning the flag (mask = bit) where it should or it in
SearchLocationQueryAssign(o, sq) ==
  IF MaskHas(sq.mask, searchBitMaskLocation)
  THEN Result(sq, DuplicateError("SearchLocation"))
  ELSE LET a == SearchQueryAppend(sq, searchIdentifierLocation, ReplaceSpaces(o.strs[1]))
       IN Result([a EXCEPT !.mask = searchBitMaskLocation], NoError)

\* func (sl SearchLocation) Query(sq *SearchQuery) error
SearchLocationQuery(o, sq) ==
  IF MaskHas(sq.mask, searchBitMaskLocation)
  THEN Result(sq, DuplicateError("SearchLocation"))
  ELSE LET a == SearchQueryAppend(sq, searchIdentifierLocation, ReplaceSpaces(o.strs[1]))
       IN Result([a EXCEPT !.mask = MaskOr(@, searchBitMaskLocation)], NoError)

\* func (slc SearchLocationCoordinates) Query(sq *SearchQuery) error
\* The location element is appended before the coordinates are validated.
SearchLocationCoordinatesQuery(o, sq) ==
  IF MaskHas(sq.mask, searchBitMaskLocation)
  THEN Result(sq, DuplicateError("SearchLocationCoordinates"))
  ELSE LET a == SearchQueryAppend(sq, searchIdentifierLocation, ReplaceSpaces(o.strs[1]))
       IN IF validLatitudeLongitude(o.ints[1], o.ints[2]) = FALSE
          THEN Result(a, InvalidError("SearchLocationCoordinates"))
          ELSE LET b == SearchQueryAppend(a, searchIdentifierCoordinatesHint,
                               LatLonString(o.ints[1], o.ints[2]))
               IN Result([b EXCEPT !.mask = MaskOr(@, searchBitMaskLocation)], NoError)

\* SearchBounds.Query testing the deals flag where it should test the location flag
SearchBoundsQueryWrongFlag(o, sq) ==
  IF MaskHas(sq.mask, searchBitMaskDeals)
  THEN Result(sq, DuplicateError("SearchBounds"))
  ELSE IF validLatitudeLongitude(o.ints[1], o.ints[2]) = FALSE
  THEN Result(sq, InvalidError("SearchBounds"))
  ELSE IF validLatitudeLongitude(o.ints[3], o.ints[4]) = FALSE
  THEN Result(sq, InvalidError("SearchBounds"))
  ELSE LET a == SearchQueryAppend(sq, searchIdentifierBounds,
                       LatLonString(o.ints[1], o.ints[2]) \o <<124>> \o
                       LatLonString(o.ints[3], o.ints[4]))
       IN Result([a EXCEPT !.mask = MaskOr(@, searchBitMaskLocation)], NoError)

\* func (sb SearchBounds) Query(sq *SearchQuery) error
SearchBoundsQuery(o, sq) ==
  IF MaskHas(sq.mask, searchBitMaskLocation)
  THEN Result(sq, DuplicateError("SearchBounds"))
  ELSE IF validLatitudeLongitude(o.ints[1], o.ints[2]) = FALSE
  THEN Result(sq, InvalidError("SearchBounds"))
  ELSE IF validLatitudeLongitude(o.ints[3], o.ints[4]) = FALSE
  THEN Result(sq, InvalidError("SearchBounds"))
  ELSE LET a == SearchQueryAppend(sq, searchIdentifierBounds,
                       LatLonString(o.ints[1], o.ints[2]) \o <<124>> \o
                       LatLonString(o.ints[3], o.ints[4]))
       IN Result([a EXCEPT !.mask = MaskOr(@, searchBitMaskLocation)], NoError)

\* func (st SearchTerms) Query(sq *SearchQuery) error
\* (the loop also writes the replaced terms back into the caller's st, which
\* is no part of the container)
SearchTermsQuery(o, sq) ==
  IF MaskHas(sq.mask, searchBitMaskTerm)
  THEN Result(sq, DuplicateError("SearchTerms"))
  ELSE LET st == [i \in 1..Len(o.strs) |-> ReplaceSpaces(o.strs[i])]
           a == SearchQueryAppend(sq, searchIdentifierTerm, Join(st, <<44>>))
       IN Result([a EXCEPT !.mask = MaskOr(@, searchBitMaskTerm)], NoError)

\* SearchLimit.Query returning without setting the limit flag
SearchLimitQueryNoFlag(o, sq) ==
  IF MaskHas(sq.mask, searchBitMaskLimit)
  THEN Result(sq, DuplicateError("SearchLimit"))
  ELSE IF o.ints[1] < 0 \/ o.ints[1] > 20
  THEN Result(sq, InvalidError("SearchLimit"))
  ELSE Result(SearchQueryAppend(sq, searchIdentifierLimit, Itoa(o.ints[1])), NoError)

\* func (sl SearchLimit) Query(sq *SearchQuery) error
SearchLimitQuery(o, sq) ==
  IF MaskHas(sq.mask, searchBitMaskLimit)
  THEN Result(sq, DuplicateError("SearchLimit"))
  ELSE IF o.ints[1] < 0 \/ o.ints[1] > 20
  THEN Result(sq, InvalidError("SearchLimit"))
  ELSE LET a == SearchQueryAppend(sq, searchIdentifierLimit, Itoa(o.ints[1]))
       IN Result([a EXCEPT !.mask = MaskOr(@, searchBitMaskLimit)], NoError)

\* the offset appended under the key of the limit
SearchOffsetQueryLimitKey(o, sq) ==
  IF MaskHas(sq.mask, searchBitMaskOffset)
  THEN Result(sq, DuplicateError("SearchOffset"))
  ELSE IF o.ints[1] < 0
  THEN Result(sq, InvalidError("SearchOffset"))
  ELSE LET a == SearchQueryAppend(sq, searchIdentifierLimit, Itoa(o.ints[1]))
       IN Result([a EXCEPT !.mask = MaskOr(@, searchBitMaskOffset)], NoError)

\* func (so SearchOffset) Query(sq *SearchQuery) error
SearchOffsetQuery(o, sq) ==
  IF MaskHas(sq.mask, searchBitMaskOffset)
  THEN Result(sq, DuplicateError("SearchOffset"))
  ELSE IF o.ints[1] < 0
  THEN Result(sq, InvalidError("SearchOffset"))
  ELSE LET a == SearchQueryAppend(sq, searchIdentifierOffset, Itoa(o.ints[1]))
       IN Result([a EXCEPT !.mask = MaskOr(@, searchBitMaskOffset)], NoError)

\* func (ss SearchSort) Query(sq *SearchQuery) error
SearchSortQuery(o, sq) ==
  IF MaskHas(sq.mask, searchBitMaskSort)
  THEN Result(sq, DuplicateError("SearchSort"))
  ELSE IF o.ints[1] < SearchSortBestMatched \/ o.ints[1] > SearchSortHighestRated
  THEN Result(sq, InvalidError("SearchSort"))
  ELSE LET a == SearchQueryAppend(sq, searchIdentifierSort, Itoa(o.ints[1]))
       IN Result([a EXCEPT !.mask = MaskOr(@, searchBitMaskSort)], NoError)

\* the loop of SearchCategories.Query over sc[i..]: the buffer it builds, or
\* "invalid" when it returns on a code outside the enumeration
RECURSIVE CategoryBuffer(_, _, _)
CategoryBuffer(sc, i, buffer) ==
  IF i > Len(sc) THEN [ok |-> TRUE, buffer |-> buffer]
  ELSE LET b1 == IF i /= 1 THEN buffer \o <<44>> ELSE buffer
       IN IF sc[i] < SearchCategoryActive \/ sc[i] >= SearchCategoryTotal
          THEN [ok |-> FALSE, buffer |-> b1]
          ELSE CategoryBuffer(sc, i + 1, b1 \o searchCategoryNames[sc[i] + 1])

\* SearchCategories.Query without its test for an empty list
SearchCategoriesQueryNoEmptyCheck(o, sq) ==
  IF MaskHas(sq.mask, searchBitMaskCategory)
  THEN Result(sq, DuplicateError("SearchCategories"))
  ELSE LET r == CategoryBuffer(o.ints, 1, <<>>)
       IN IF ~r.ok
          THEN Result(sq, InvalidError("SearchCategory"))
          ELSE LET a == SearchQueryAppend(sq, searchIdentifierCategory, r.buffer)
               IN Result([a EXCEPT !.mask = MaskOr(@, searchBitMaskCategory)], NoError)

\* func (sc SearchCategories) Query(sq *SearchQuery) error
SearchCategoriesQuery(o, sq) ==
  IF MaskHas(sq.mask, searchBitMaskCategory)
  THEN Result(sq, DuplicateError("SearchCategories"))
  ELSE IF Len(o.ints) = 0
  THEN Result(sq, InvalidError("SearchCategories"))
  ELSE LET r == CategoryBuffer(o.ints, 1, <<>>)
       IN IF ~r.ok
          THEN Result(sq, InvalidError("SearchCategory"))
          ELSE LET a == SearchQueryAppend(sq, searchIdentifierCategory, r.buffer)
               IN Result([a EXCEPT !.mask = MaskOr(@, searchBitMaskCategory)], NoError)

\* SearchRadius.Query rejecting the largest radius too (>= where it has >)
SearchRadiusQueryExclusive(o, sq) ==
  IF MaskHas(sq.mask, searchBitMaskRadius)
  THEN Result(sq, DuplicateError("SearchRadius"))
  ELSE IF o.ints[1] < 0 \/ o.ints[1] >= 40000
  THEN Result(sq, InvalidError("SearchRadius"))
  ELSE LET a == SearchQueryAppend(sq, searchIdentifierRadius, Itoa(o.ints[1]))
       IN Result([a EXCEPT !.mask = MaskOr(@, searchBitMaskRadius)], NoError)

\* func (sr SearchRadius) Query(sq *SearchQuery) error
SearchRadiusQuery(o, sq) ==
  IF MaskHas(sq.mask, searchBitMaskRadius)
  THEN Result(sq, DuplicateError("SearchRadius"))
  ELSE IF o.ints[1] < 0 \/ o.ints[1] > 40000
  THEN Result(sq, InvalidError("SearchRadius"))
  ELSE LET a == SearchQueryAppend(sq, searchIdentifierRadius, Itoa(o.ints[1]))
       IN Result([a EXCEPT !.mask = MaskOr(@, searchBitMaskRadius)], NoError)

\* func (sd SearchDeals) Query(sq *SearchQuery) error
SearchDealsQuery(o, sq) ==
  IF MaskHas(sq.mask, searchBitMaskDeals)
  THEN Result(sq, DuplicateError("SearchDeals"))
  ELSE LET a == IF o.ints[1] = 1
                THEN SearchQueryAppend(sq, searchIdentifierDeals, StrTrue)
                ELSE SearchQueryAppend(sq, searchIdentifierDeals, StrFalse)
       IN Result([a EXCEPT !.mask = MaskOr(@, searchBitMaskDeals)], NoError)

\* v.Query(&q) through the SearchQuerier interface: dispatch on the dynamic type
Query(o, sq) ==
  CASE o.kind = "SearchCoordinates" -> SearchCoordinatesQuery(o, sq)
    [] o.kind = "SearchLocation" -> SearchLocationQuery(o, sq)
    [] o.kind = "SearchLocationCoordinates" -> SearchLocationCoordinatesQuery(o, sq)
    [] o.kind = "SearchBounds" -> SearchBoundsQuery(o, sq)
    [] o.kind = "SearchTerms" -> SearchTermsQuery(o, sq)
    [] o.kind = "SearchLimit" -> SearchLimitQuery(o, sq)
    [] o.kind = "SearchOffset" -> SearchOffsetQuery(o, sq)
    [] o.kind = "SearchSort" -> SearchSortQuery(o, sq)
    [] o.kind = "SearchCategories" -> SearchCategoriesQuery(o, sq)
    [] o.kind = "SearchRadius" -> SearchRadiusQuery(o, sq)
    [] o.kind = "SearchDeals" -> SearchDealsQuery(o, sq)

\* ------------------------------------------------------------- encoding
\* func shouldPercentEncode(c byte) bool
shouldPercentEncode(c) ==
  ~((c >= 48 /\ c <= 57) \/ (c >= 65 /\ c <= 90) \/ (c >= 97 /\ c <= 122)
    \/ c = 45 \/ c = 46 \/ c = 95 \/ c = 126)

\* utf8.RuneError, what range yields for a byte that starts no valid encoding
RuneError == 65533

\* whether b is a continuation byte within lo..hi
Continues(s, i, lo, hi) == i <= Len(s) /\ s[i] >= lo /\ s[i] <= hi

\* the rune that starts at s[i] and the number of bytes it takes, as
\* utf8.DecodeRuneInString finds them
DecodeRune(s, i) ==
  LET b0 == s[i]
      bad == [r |-> RuneError, size |-> 1]
      lo2 == IF b0 = 224 THEN 160 ELSE IF b0 = 240 THEN 144 ELSE 128
      hi2 == IF b0 = 237 THEN 159 ELSE IF b0 = 244 THEN 143 ELSE 191
  IN IF b0 < 128 THEN [r |-> b0, size |-> 1]
     ELSE IF b0 < 194 \/ b0 > 244 THEN bad
     ELSE IF b0 < 224
     THEN IF Continues(s, i + 1, 128, 191)
          THEN [r |-> (b0 % 32) * 64 + (s[i + 1] % 64), size |-> 2]
          ELSE bad
     ELSE IF b0 < 240
     THEN IF Continues(s, i + 1, lo2, hi2) /\ Continues(s, i + 2, 128, 191)
          THEN [r |-> (b0 % 16) * 4096 + (s[i + 1] % 64) * 64 + (s[i + 2] % 64),
                size |-> 3]
          ELSE bad
     ELSE IF /\ Continues(s, i + 1, lo2, hi2) /\ Continues(s, i + 2, 128, 191)
             /\ Continues(s, i + 3, 128, 191)
          THEN [r |-> (b0 % 8) * 262144 + (s[i + 1] % 64) * 4096
                      + (s[i + 2] % 64) * 64 + (s[i + 3] % 64),
                size |-> 4]
          ELSE bad

\* the runes for _, v := range s yields from s[i] on
RECURSIVE RunesFrom(_, _)
RunesFrom(s, i) ==
  IF i > Len(s) THEN <<>>
  ELSE LET d == DecodeRune(s, i)
       IN <<d.r>> \o RunesFrom(s, i + d.size)

\* the runes for _, v := range s yields: a string of bytes below 128 yields
\* its bytes
Runes(s) == IF \A i \in 1..Len(s) : s[i] < 128 THEN s ELSE RunesFrom(s, 1)

\* the body of the loop with the character not cut down to a byte
EncodeOneUntruncated(v) ==
  LET val == v
  IN IF shouldPercentEncode(val)
     THEN IF val = 44
          THEN <<37, 50, 53, 50, 67>>
          ELSE <<37, hexMap[((val \div 16) % 16) + 1], hexMap[(val % 16) + 1]>>
     ELSE <<val>>

\* the body of percentEncode's loop for one character v of the source
EncodeOne(v) ==
  LET val == v % 256
  IN IF shouldPercentEncode(val)
     THEN IF val = 44
          THEN <<37, 50, 53, 50, 67>>
          ELSE <<37, hexMap[((val \div 16) % 16) + 1], hexMap[(val % 16) + 1]>>
     ELSE <<val>>

\* the loop of percentEncode over the runes source[lo..hi], the buffer it
\* writes; the range is halved so that long strings do not nest deeply
RECURSIVE EncodeRange(_, _, _)
EncodeRange(source, lo, hi) ==
  IF lo > hi THEN <<>>
  ELSE IF lo = hi THEN EncodeOne(source[lo])
  ELSE LET mid == (lo + hi) \div 2
       IN EncodeRange(source, lo, mid) \o EncodeRange(source, mid + 1, hi)

\* func percentEncode(source string) string
percentEncode(source) ==
  LET runes == Runes(source)
  IN EncodeRange(runes, 1, Len(runes))

\* the value rand.Int() returns on the i-th call after the generator was in
\* state seed: some non-negative integer
RandInt(seed, i) == (seed * 7919 + i * 104729) % 1000003

\* nonce leaving its loop one turn early
nonceOneShort(length, seed) ==
  [i \in 1..(length - 1) |-> nonceCharacters[(RandInt(seed, i) % Len(nonceCharacters)) + 1]]

\* func nonce(length int) string, the generator being in state seed
nonce(length, seed) ==
  [i \in 1..length |-> nonceCharacters[(RandInt(seed, i) % Len(nonceCharacters)) + 1]]

\* base64(HMAC-SHA1(key, message)): the digest is not computed; it is
\* represented by the pair it is a function of (an ideal, collision-free MAC)
HmacSha1Base64(key, message) == <<35>> \o key \o <<35>> \o message

\* func (q *SearchQuery) String() string, on the elements
RECURSIVE StringFrom(_, _)
StringFrom(es, i) ==
  IF i > Len(es) THEN <<>>
  ELSE <<38>> \o es[i].Name \o <<61>> \o es[i].Value \o StringFrom(es, i + 1)

\* String writing "&" after every pair where it writes it between pairs
StringTrailingSeparator(sq) ==
  LET es == Elements(sq)
  IN IF Len(es) = 0 THEN <<>>
     ELSE es[1].Name \o <<61>> \o es[1].Value \o StringFrom(es, 2) \o <<38>>

String(sq) ==
  LET es == Elements(sq)
  IN IF Len(es) = 0 THEN <<>>
     ELSE es[1].Name \o <<61>> \o es[1].Value \o StringFrom(es, 2)

\* ------------------------------------------------------------- sorting
\* one pass of an insertion sort: e put behind the elements not greater than it
RECURSIVE InsertSorted(_, _)
InsertSorted(sorted, e) ==
  IF sorted = <<>> THEN <<e>>
  ELSE IF Less(e, sorted[1]) THEN <<e>> \o sorted
  ELSE <<sorted[1]>> \o InsertSorted(Tail(sorted), e)

\* the elements in non-decreasing order of Less, equal ones in their old order
RECURSIVE StableSort(_)
StableSort(seq) ==
  IF seq = <<>> THEN <<>>
  ELSE InsertSorted(StableSort(SubSeq(seq, 1, Len(seq) - 1)), seq[Len(seq)])

RemoveAt(seq, i) == SubSeq(seq, 1, i - 1) \o SubSeq(seq, i + 1, Len(seq))

\* every order the elements of seq can be put in
RECURSIVE Orders(_)
Orders(seq) ==
  IF seq = <<>> THEN {<<>>}
  ELSE UNION {{<<e>> \o t :
                 t \in Orders(RemoveAt(seq, CHOOSE i \in 1..Len(seq) : seq[i] = e))} :
              e \in {seq[i] : i \in 1..Len(seq)}}

\* the length of the run of elements at the head of sorted that have one name
RECURSIVE RunLength(_, _)
RunLength(sorted, k) ==
  IF k < Len(sorted) /\ ~Less(sorted[1], sorted[k + 1])
  THEN RunLength(sorted, k + 1) ELSE k

\* a sorted sequence with the elements of equal name in every order
RECURSIVE TieOrders(_)
TieOrders(sorted) ==
  IF sorted = <<>> THEN {<<>>}
  ELSE LET k == RunLength(sorted, 1)
           rest == TieOrders(SubSeq(sorted, k + 1, Len(sorted)))
       IN {p \o t : p \in Orders(SubSeq(sorted, 1, k)), t \in rest}

\* sort.Sort(q) is not stable: every arrangement of the elements that is in
\* non-decreasing order of Less is a possible outcome
AllSorts(seq) == TieOrders(StableSort(seq))

\* ---------------------------------------------------------- the signer
\* func (yoa *oauth) SetHashKey(consumerSecret string, tokenSecret string)
SetHashKey(yoa, consumerSecret, tokenSecret) ==
  [yoa EXCEPT !.hashKey = percentEncode(consumerSecret) \o <<38>> \o percentEncode(tokenSecret)]

\* func New(URL, consumerKey, consumerSecret, token, tokenSecret string) (c *Client)
New(URL, consumerKey, consumerSecret, token, tokenSecret) ==
  [url |-> URL,
   signer |-> SetHashKey([ConsumerKey |-> consumerKey, Token |-> token, hashKey |-> <<>>],
                         consumerSecret, tokenSecret)]

\* Client.SearchQuery(q SearchQuery) receives a copy of the caller's struct:
\* the copy qp has its own length and mask, and the same backing array as the
\* caller's q for as long as no append through qp reallocates (shared).
Frame(sq) == [q |-> sq, qp |-> sq, shared |-> TRUE]

\* elements.Append(name, value) through the callee's pointer
FrameAppend(f, name, value) ==
  LET realloc == f.qp.queries.len >= Len(f.qp.queries.arr)
      qp2 == SearchQueryAppend(f.qp, name, value)
  IN [q |-> IF f.shared /\ ~realloc
            THEN [f.q EXCEPT !.queries.arr = qp2.queries.arr]
            ELSE f.q,
      qp |-> qp2,
      shared |-> f.shared /\ ~realloc]

\* a sort that leaves the elements where they are
FrameSortSkipped(f, sorted) == f

\* elements.Sort() through the callee's pointer, sorted being the outcome:
\* Swap exchanges cells of the backing array in place
FrameSort(f, sorted) ==
  LET arr2 == [i \in 1..Len(f.qp.queries.arr) |->
                 IF i <= f.qp.queries.len THEN sorted[i] ELSE f.qp.queries.arr[i]]
  IN [q |-> IF f.shared THEN [f.q EXCEPT !.queries.arr = arr2] ELSE f.q,
      qp |-> [f.qp EXCEPT !.queries.arr = arr2],
      shared |-> f.shared]

\* the five appends with the timestamp left out
SignAppendsNoTimestamp(yoa, f, seed, now) ==
  LET f1 == FrameAppend(f, oauthConsumerKey, yoa.ConsumerKey)
      f2 == FrameAppend(f1, oauthNonce, nonce(30, seed))
      f3 == FrameAppend(f2, oauthSignatureMethod, HmacSha1Name)
  IN FrameAppend(f3, oauthToken, yoa.Token)

\* oauth.Sign, the five appends
SignAppends(yoa, f, seed, now) ==
  LET f1 == FrameAppend(f, oauthConsumerKey, yoa.ConsumerKey)
      f2 == FrameAppend(f1, oauthNonce, nonce(30, seed))
      f3 == FrameAppend(f2, oauthSignatureMethod, HmacSha1Name)
      f4 == FrameAppend(f3, oauthTimestamp, Itoa(now))
  IN FrameAppend(f4, oauthToken, yoa.Token)

\* the base string with the url left as it is
SignatureBaseRawUrl(method, url, sq) ==
  Join(<<method, url, percentEncode(String(sq))>>, <<38>>)

\* oauth.Sign, the signature base string of the sorted container
SignatureBase(method, url, sq) ==
  Join(<<method, percentEncode(url), percentEncode(String(sq))>>, <<38>>)

\* Sign sorting once more after it appended the signature
SignSortedResorted(yoa, method, url, f, sorted) ==
  LET fs == FrameSort(f, sorted)
      signature == SignatureBase(method, url, fs.qp)
      fa == FrameAppend(fs, oauthSignature,
                        percentEncode(HmacSha1Base64(yoa.hashKey, signature)))
  IN FrameSort(fa, StableSort(Elements(fa.qp)))

\* oauth.Sign, from the sort on: sorted is the outcome of elements.Sort()
SignSorted(yoa, method, url, f, sorted) ==
  LET fs == FrameSort(f, sorted)
      signature == SignatureBase(method, url, fs.qp)
  IN FrameAppend(fs, oauthSignature,
                 percentEncode(HmacSha1Base64(yoa.hashKey, signature)))

\* func (yoa *oauth) Sign(method string, url string, elements *SearchQuery):
\* the frames Sign can leave behind
Sign(yoa, method, url, f, seed, now) ==
  LET fa == SignAppends(yoa, f, seed, now)
  IN {SignSorted(yoa, method, url, fa, sorted) : sorted \in AllSorts(Elements(fa.qp))}

\* ------------------------------------------------------------- inputs
\* "Delft", "New York"
LocationNames == {<<68, 101, 108, 102, 116>>, <<78, 101, 119, 32, 89, 111, 114, 107>>}
\* latitude, longitude pairs in whole degrees: two valid, two invalid
LatLonValues == {<<0, 0>>, <<-90, 180>>, <<91, 0>>, <<0, -181>>}
\* south-west and north-east corners: valid, invalid south-west, invalid north-east
BoundsValues == {<<0, 0, 1, 1>>, <<-91, 0, 1, 1>>, <<0, 0, 1, 181>>}
\* {"bar"}, {"ice cream", "bar"}
TermsValues == {<< <<98, 97, 114>> >>,
                << <<105, 99, 101, 32, 99, 114, 101, 97, 109>>, <<98, 97, 114>> >>}
LimitValues == {-1, 1, 20, 21}
OffsetValues == {-1, 0, 1}
SortValues == {-1, 1, 2, 3}
\* bars; active, restaurants; bars and an unknown code; none
CategoriesValues == {<<6>>, <<0, 7>>, <<6, 8>>, <<>>}
RadiusValues == {-1, 20000, 40000, 40001}
\* elements a caller appends by hand: limit=5, location=Delft
AppendValues == {searchQueryElement(searchIdentifierLimit, <<53>>),
                 searchQueryElement(searchIdentifierLocation, <<68, 101, 108, 102, 116>>)}
\* the element a caller appends by hand to a container it hands to
\* SearchQuery: term=bar
SignAppendValues == {searchQueryElement(searchIdentifierTerm, <<98, 97, 114>>)}
\* states the process-wide random generator is in when nonce is called
RandSeeds == {1, 2}
\* values of time.Now().Unix()
UnixTimes == {1500000000}
\* what the transport does with the GET: http.Get fails, reading the body
\* fails, the body is not a valid answer, the body holds businesses
HttpOutcomes == {"getError", "readError", "invalidData", "businesses"}

\* the client every container is used with:
\* New("http://y/s", "ck", "cs", "tk", "ts")
TheUrl == <<104, 116, 116, 112, 58, 47, 47, 121, 47, 115>>
TheCredentials == << <<99, 107>>, <<99, 115>>, <<116, 107>>, <<116, 115>> >>
TheClient == New(TheUrl, TheCredentials[1], TheCredentials[2],
                 TheCredentials[3], TheCredentials[4])

\* -------------------------------------------------------------- state
VARIABLES
  client,    \* the Client: url and signer (ConsumerKey, Token, hashKey)
  q,         \* the caller's SearchQuery; after a call of SearchOptions, the
             \* container qp that call built
  last,      \* the last call made by the caller: what, with which option, its error
  signed,    \* SearchQuery's copy of the container when Sign returned, if
             \* SearchQuery is the last call
  request,   \* the URL that call requested
  ret,       \* how that call ended
  manual,    \* whether the caller has appended to this container by hand
  searches,  \* the SearchQuery calls made with this container
  runs,      \* two calls of Sign set side by side: what each was given and left
             \* (and the options SearchOptions built its container from)
  sorts,     \* the outcomes sort.Sort has had in this build, by input
  credentials, \* the four strings New was given for the client: consumer key,
             \* consumer secret, token, token secret
  args,      \* the arguments of the last call when it is a call of
             \* SearchOptions (its options), of percentEncode (its source), of
             \* Sort (the elements of the receiver when it was called) or of
             \* nonce (its length, and the state the generator was in)
  text,      \* the string the last call returned when it is a call of
             \* String, of percentEncode or of nonce
  procs      \* the goroutines that apply an option to q: where each one is in
             \* Query, its option, the slice its append made, what it returned,
             \* and whether the other one had returned nil when it began

vars == <<client, q, last, signed, request, ret, manual, searches, runs, sorts,
          credentials, args, text, procs>>

\* the goroutines that share a container
Goroutines == {1, 2}

NoOption == Option("", <<>>, <<>>)

\* a call of Sign that has not been made
NoRun == [done |-> FALSE,
          yoa |-> [ConsumerKey |-> <<>>, Token |-> <<>>, hashKey |-> <<>>],
          method |-> <<>>, url |-> <<>>, elements |-> <<>>, mask |-> 0,
          nonce |-> <<>>, now |-> 0, out |-> <<>>, options |-> <<>>]
Call(what, o, err) == [call |-> what, opt |-> o, err |-> err]
\* a goroutine that has not called Query
Idle == [pc |-> "idle", opt |-> NoOption, slice |-> EmptyQuery.queries,
         err |-> NoError, after |-> FALSE]

Init ==
  /\ client = TheClient
  /\ q = EmptyQuery
  /\ last = Call("new", NoOption, NoError)
  /\ signed = EmptyQuery
  /\ request = <<>>
  /\ ret = "none"
  /\ manual = FALSE
  /\ searches = 0
  /\ runs = <<NoRun, NoRun>>
  /\ sorts = {}
  /\ credentials = TheCredentials
  /\ args = <<>>
  /\ text = <<>>
  /\ procs = [g \in Goroutines |-> Idle]

\* var q SearchQuery: the caller starts over with a fresh container
NewQuery ==
  /\ q' = EmptyQuery
  /\ last' = Call("new", NoOption, NoError)
  /\ signed' = EmptyQuery
  /\ request' = <<>>
  /\ ret' = "none"
  /\ manual' = FALSE
  /\ searches' = 0
  /\ args' = <<>>
  /\ text' = <<>>
  /\ UNCHANGED <<client, runs, sorts, credentials, procs>>

\* the caller keeps the container within maxLen elements: it applies o only
\* if the container holds no more than that afterwards
Fits(o, maxLen) == Len(Elements(Query(o, q).sq)) <= maxLen

\* err := o.Query(&q)
Applied(o) ==
  LET r == Query(o, q)
  IN /\ q' = r.sq
     /\ last' = Call("Query", o, r.err)
     /\ signed' = EmptyQuery
     /\ request' = <<>>
     /\ ret' = "none"
     /\ args' = <<>>
     /\ text' = <<>>
     /\ UNCHANGED <<client, manual, searches, runs, sorts, credentials, procs>>

QueryCoordinates ==
  \E v \in LatLonValues :
    /\ Fits(SearchCoordinates(v[1], v[2]), MaxLen)
    /\ Applied(SearchCoordinates(v[1], v[2]))
QueryLocation ==
  \E n \in LocationNames :
    /\ Fits(SearchLocation(n), MaxLen)
    /\ Applied(SearchLocation(n))
QueryLocationCoordinates ==
  \E n \in LocationNames, v \in LatLonValues :
    /\ Fits(SearchLocationCoordinates(n, v[1], v[2]), MaxLen)
    /\ Applied(SearchLocationCoordinates(n, v[1], v[2]))
QueryBounds ==
  \E v \in BoundsValues :
    /\ Fits(SearchBounds(v[1], v[2], v[3], v[4]), MaxLen)
    /\ Applied(SearchBounds(v[1], v[2], v[3], v[4]))
QueryTerms ==
  \E t \in TermsValues :
    /\ Fits(SearchTerms(t), MaxLen)
    /\ Applied(SearchTerms(t))
QueryLimit ==
  \E n \in LimitValues :
    /\ Fits(SearchLimit(n), MaxLen)
    /\ Applied(SearchLimit(n))
QueryOffset ==
  \E n \in OffsetValues :
    /\ Fits(SearchOffset(n), MaxLen)
    /\ Applied(SearchOffset(n))
QuerySort ==
  \E n \in SortValues :
    /\ Fits(SearchSort(n), MaxLen)
    /\ Applied(SearchSort(n))
QueryCategories ==
  \E cs \in CategoriesValues :
    /\ Fits(SearchCategories(cs), MaxLen)
    /\ Applied(SearchCategories(cs))
QueryRadius ==
  \E n \in RadiusValues :
    /\ Fits(SearchRadius(n), MaxLen)
    /\ Applied(SearchRadius(n))
QueryDeals ==
  \E b \in BOOLEAN :
    /\ Fits(SearchDeals(b), MaxLen)
    /\ Applied(SearchDeals(b))

\* q.Append(e.Name, e.Value) by the caller
Appended(e) ==
  /\ q' = SearchQueryAppend(q, e.Name, e.Value)
  /\ last' = Call("Append", Option("Append", <<>>, <<e.Name, e.Value>>), NoError)
  /\ signed' = EmptyQuery
  /\ request' = <<>>
  /\ ret' = "none"
  /\ manual' = TRUE
  /\ args' = <<>>
  /\ text' = <<>>
  /\ UNCHANGED <<client, searches, runs, sorts, credentials, procs>>

ManualAppend ==
  \E e \in AppendValues :
    /\ Len(Elements(q)) < MaxLen
    /\ Appended(e)

Next ==
  \/ NewQuery
  \/ QueryCoordinates
  \/ QueryLocation
  \/ QueryLocationCoordinates
  \/ QueryBounds
  \/ QueryTerms
  \/ QueryLimit
  \/ QueryOffset
  \/ QuerySort
  \/ QueryCategories
  \/ QueryRadius
  \/ QueryDeals
  \/ ManualAppend

Spec == Init /\ [][Next]_vars

\* ------------------------------------------------ signing a container
\* how SearchQuery ends, given what the transport does
SearchQueryReturn(outcome) ==
  CASE outcome = "getError" -> "panic"
    [] outcome = "readError" -> "error"
    [] outcome = "invalidData" -> "error"
    [] outcome = "businesses" -> "businesses"

\* func (c Client) SearchQuery(q SearchQuery) (*Businesses, error)
SearchQueryCall ==
  /\ searches < MaxSearches
  /\ searches' = searches + 1
  /\ \E seed \in RandSeeds, now \in UnixTimes :
       \E f \in Sign(client.signer, MethodGet, client.url, Frame(q), seed, now) :
         /\ q' = f.q
         /\ signed' = f.qp
         /\ request' = Join(<<client.url, String(f.qp)>>, <<63>>)
         /\ \E outcome \in HttpOutcomes : ret' = SearchQueryReturn(outcome)
         /\ last' = Call("SearchQuery", NoOption, NoError)
  /\ args' = <<>>
  /\ text' = <<>>
  /\ UNCHANGED <<client, manual, runs, sorts, credentials, procs>>

SignAppend ==
  \E e \in SignAppendValues :
    /\ Len(Elements(q)) < MaxSignLen
    /\ Appended(e)
\* SearchLimit(1) and SearchSort(SearchSortDistance) applied to such a container
SignQueryLimit ==
  /\ Fits(SearchLimit(1), MaxSignLen)
  /\ Applied(SearchLimit(1))
SignQuerySort ==
  /\ Fits(SearchSort(1), MaxSignLen)
  /\ Applied(SearchSort(1))

NextSign ==
  \/ SignAppend
  \/ SignQueryLimit
  \/ SignQuerySort
  \/ SearchQueryCall

SignSpec == Init /\ [][NextSign]_vars

\* ------------------------------------------- two calls of Sign compared
\* the signers of clients made by New from either of two consumer keys,
\* consumer secrets and tokens: "ck"/"cK", "cs"/"cS", "tk"/"tK", and "ts"
DetSigners ==
  {New(<<117>>, ck, cs, tk, <<116, 115>>).signer :
     ck \in {<<99, 107>>, <<99, 75>>},
     cs \in {<<99, 115>>, <<99, 83>>},
     tk \in {<<116, 107>>, <<116, 75>>}}
\* the method and the url Client.SearchQuery passes: "GET" and the client's url, "u"
DetMethods == {MethodGet}
DetUrls == {<<117>>}
DetTimes == {1500000000, 1500000001}
\* the containers handed to Sign: term=bar and term=pub appended by hand,
\* limit=1 appended by hand, limit=1 put there by SearchLimit(1)
DetContainers ==
  {SearchQueryAppend(SearchQueryAppend(EmptyQuery, searchIdentifierTerm, <<98, 97, 114>>),
                     searchIdentifierTerm, <<112, 117, 98>>),
   SearchQueryAppend(EmptyQuery, searchIdentifierLimit, <<49>>),
   Query(SearchLimit(1), EmptyQuery).sq}

\* sort.Sort is a fixed algorithm: of the arrangements it may produce for an
\* input, one build produces the same one every time it is given that input
SortOutcomesAny(memo, input) == AllSorts(input)

SortOutcomes(memo, input) ==
  IF \E p \in memo : p[1] = input
  THEN {p[2] : p \in {m \in memo : m[1] = input}}
  ELSE AllSorts(input)

\* yoa.Sign(method, url, &sq) as the r-th of the two calls
SignRun(r) ==
  /\ \E yoa \in DetSigners, method \in DetMethods, url \in DetUrls,
        sq \in DetContainers, seed \in RandSeeds, now \in DetTimes :
       LET fa == SignAppends(yoa, Frame(sq), seed, now)
           input == Elements(fa.qp)
       IN \E sorted \in SortOutcomes(sorts, input) :
            /\ runs' = [runs EXCEPT ![r] =
                 [done |-> TRUE, yoa |-> yoa, method |-> method, url |-> url,
                  elements |-> Elements(sq), mask |-> sq.mask,
                  nonce |-> nonce(30, seed), now |-> now,
                  out |-> Elements(SignSorted(yoa, method, url, fa, sorted).qp),
                  options |-> <<>>]]
            /\ sorts' = sorts \cup {<<input, sorted>>}
  /\ UNCHANGED <<client, q, last, signed, request, ret, manual, searches,
                 credentials, args, text, procs>>

SignFirst ==
  /\ ~runs[1].done
  /\ SignRun(1)
\* the two calls being alike, the second is the one made later
SignSecond ==
  /\ runs[1].done
  /\ ~runs[2].done
  /\ SignRun(2)

NextDet ==
  \/ SignFirst
  \/ SignSecond

DetSpec == Init /\ [][NextDet]_vars

\* --------------------------------------------- serializing containers
\* the elements a caller appends to a container it serializes: limit=5,
\* location=Delft, term=a&b=c (a value holding the separators), sort= (an
\* empty value)
StringAppendValues ==
  {searchQueryElement(searchIdentifierLimit, <<53>>),
   searchQueryElement(searchIdentifierLocation, <<68, 101, 108, 102, 116>>),
   searchQueryElement(searchIdentifierTerm, <<97, 38, 98, 61, 99>>),
   searchQueryElement(searchIdentifierSort, <<>>)}

StringAppend ==
  \E e \in StringAppendValues :
    /\ Len(Elements(q)) < MaxStringLen
    /\ Appended(e)

\* text := q.String()
StringCall ==
  /\ text' = String(q)
  /\ last' = Call("String", NoOption, NoError)
  /\ args' = <<>>
  /\ signed' = EmptyQuery
  /\ request' = <<>>
  /\ ret' = "none"
  /\ UNCHANGED <<client, q, manual, searches, runs, sorts, credentials, procs>>

NextString ==
  \/ NewQuery
  \/ StringAppend
  \/ StringCall

StringSpec == Init /\ [][NextString]_vars

\* ---------------------------------------------------- sorting containers
\* func (sq *SearchQuery) Sort(), sorted being the outcome of sort.Sort(sq):
\* Swap exchanges cells of the backing array in place, the mask is not touched
Sort(sq, sorted) ==
  [sq EXCEPT !.queries.arr =
     [i \in 1..Len(sq.queries.arr) |->
        IF i <= sq.queries.len THEN sorted[i] ELSE sq.queries.arr[i]]]

\* the elements a caller appends to a container it sorts: term=bar, term=pub,
\* limit=5, category_filter=pubs
SortAppendValues ==
  {searchQueryElement(searchIdentifierTerm, <<98, 97, 114>>),
   searchQueryElement(searchIdentifierTerm, <<112, 117, 98>>),
   searchQueryElement(searchIdentifierLimit, <<53>>),
   searchQueryElement(searchIdentifierCategory, <<112, 117, 98, 115>>)}

SortAppend ==
  \E e \in SortAppendValues :
    /\ Len(Elements(q)) < MaxSortLen
    /\ Appended(e)
\* SearchSort(SearchSortDistance) applied to such a container
SortQuerySort ==
  /\ Fits(SearchSort(1), MaxSortLen)
  /\ Applied(SearchSort(1))

\* q.Sort() by the caller
SortCall ==
  \E sorted \in AllSorts(Elements(q)) :
    /\ q' = Sort(q, sorted)
    /\ last' = Call("Sort", NoOption, NoError)
    /\ args' = <<Elements(q)>>
    /\ text' = <<>>
    /\ signed' = EmptyQuery
    /\ request' = <<>>
    /\ ret' = "none"
    /\ UNCHANGED <<client, manual, searches, runs, sorts, credentials, procs>>

NextSort ==
  \/ NewQuery
  \/ SortAppend
  \/ SortQuerySort
  \/ SortCall

SortSpec == Init /\ [][NextSort]_vars

\* --------------------------------------------------- generating nonces
\* text := nonce(length), the generator being in state seed
NonceCall ==
  \E length \in 0..MaxNonceLen, seed \in RandSeeds :
    /\ args' = <<length, seed>>
    /\ text' = nonce(length, seed)
    /\ last' = Call("nonce", NoOption, NoError)
    /\ signed' = EmptyQuery
    /\ request' = <<>>
    /\ ret' = "none"
    /\ UNCHANGED <<client, q, manual, searches, runs, sorts, credentials, procs>>

NextNonce ==
  \/ NonceCall
  \/ NewQuery
  \/ SearchQueryCall

NonceSpec == Init /\ [][NextNonce]_vars

\* ------------------------------------------------- encoding strings
\* the strings TestPercentEncode attempts
TestPercentEncodeStrings ==
  {<<>>,
   <<97, 98, 99>>,
   <<97, 98, 99, 32, 97, 98, 99>>,
   <<97>>,
   <<97, 98, 99, 33, 97, 98, 99, 64, 97, 98, 99>>,
   <<97, 98, 99, 35, 97, 98, 99, 36, 97, 98, 99>>,
   <<97, 98, 99, 37, 97, 98, 99, 94, 97, 98, 99>>,
   <<97, 98, 99, 38, 97, 98, 99, 42, 97, 98, 99>>,
   <<97, 98, 99, 40, 97, 98, 99, 41, 97, 98, 99>>,
   <<97, 98, 99, 45, 97, 98, 99, 95, 97, 98, 99>>,
   <<97, 98, 99, 61, 97, 98, 99, 43, 97, 98, 99>>}

\* bytes strings are made up of: 'a', 'Z', ' ', ',', '~', the lead bytes 0xC4
\* and 0xC5 and the continuation bytes 0x81 and 0xAC, which encode U+0101,
\* U+012C, U+0141 and U+016C, and 0xFF, which no encoding contains
EncodeBytes == {97, 90, 32, 44, 126, 196, 197, 129, 172, 255}

\* the strings handed to percentEncode
EncodeSources ==
  TestPercentEncodeStrings \cup UNION {[1..n -> EncodeBytes] : n \in 0..MaxEncodeLen}

\* text := percentEncode(source)
EncodeCall ==
  \E source \in EncodeSources :
    /\ args' = <<source>>
    /\ text' = percentEncode(source)
    /\ last' = Call("percentEncode", NoOption, NoError)
    /\ UNCHANGED <<client, q, signed, request, ret, manual, searches, runs, sorts,
                   credentials, procs>>

NextEncode ==
  \/ EncodeCall

EncodeSpec == Init /\ [][NextEncode]_vars

\* ---------------------------------------------- constructing clients
\* the credentials a caller passes to New: each of "ck", "cs", "tk", "ts"
\* either given or left empty
CredentialValues ==
  {<<ck, cs, tk, ts>> : ck \in {<<>>, <<99, 107>>}, cs \in {<<>>, <<99, 115>>},
                        tk \in {<<>>, <<116, 107>>}, ts \in {<<>>, <<116, 115>>}}

\* c := New(URL, consumerKey, consumerSecret, token, tokenSecret): New has no
\* error result and no other way to refuse
NewClient ==
  \E c \in CredentialValues :
    /\ client' = New(TheUrl, c[1], c[2], c[3], c[4])
    /\ credentials' = c
    /\ last' = Call("New", NoOption, NoError)
    /\ signed' = EmptyQuery
    /\ request' = <<>>
    /\ ret' = "none"
    /\ args' = <<>>
    /\ text' = <<>>
    /\ UNCHANGED <<q, manual, searches, runs, sorts, procs>>

NextClient ==
  \/ NewClient
  \/ NewQuery
  \/ SignAppend
  \/ SearchQueryCall

ClientSpec == Init /\ [][NextClient]_vars

\* ------------------------------------- signing for clients of all kinds
\* term=bar appended by hand to a container that a client made by New from
\* any credentials is asked to search with
BaseAppend ==
  \E e \in SignAppendValues :
    /\ Len(Elements(q)) < MaxBaseLen
    /\ Appended(e)

NextBase ==
  \/ NewClient
  \/ NewQuery
  \/ BaseAppend
  \/ SearchQueryCall

BaseSpec == Init /\ [][NextBase]_vars

\* ------------------------------------------- searching with options
\* the loop of SearchOptions from options[i] on, qp being the container built
\* so far: the container it leaves, the error it returns (nil when it ran to
\* the end) and the index of the option that failed (0 when none did)
RECURSIVE QueryAll(_, _, _)
QueryAll(options, i, qp) ==
  IF i > Len(options) THEN [sq |-> qp, err |-> NoError, at |-> 0]
  ELSE LET r == Query(options[i], qp)
       IN IF r.err /= NoError
          THEN [sq |-> r.sq, err |-> ErrorEmbedded("Client", r.err), at |-> i]
          ELSE QueryAll(options, i + 1, r.sq)

\* the loop of SearchOptions going on to SearchQuery whatever Query returned
SearchOptionsLoopIgnoringErrors(options) ==
  [QueryAll(options, 1, EmptyQuery) EXCEPT !.err = NoError]

\* var qp SearchQuery and the loop of SearchOptions over all its options
SearchOptionsLoop(options) == QueryAll(options, 1, EmptyQuery)

\* the error SearchQuery returns, given what the transport does
SearchQueryError(outcome) ==
  CASE outcome = "readError" -> ErrorEmbedded("Client", [Source |-> "ioutil", Kind |-> outcome])
    [] outcome = "invalidData" -> ErrorEmbedded("Client", [Source |-> "Client", Kind |-> outcome])
    [] OTHER -> NoError

\* the options a caller passes to SearchOptions: Limit(1), Limit(21),
\* Sort(distance), Location("Delft"), LocationWithHint("Delft", 91, 0),
\* Terms("bar")
OptionsPool ==
  {SearchLimit(1), SearchLimit(21), SearchSort(1),
   SearchLocation(<<68, 101, 108, 102, 116>>),
   SearchLocationCoordinates(<<68, 101, 108, 102, 116>>, 91, 0),
   SearchTerms(<< <<98, 97, 114>> >>)}

\* the argument lists of SearchOptions
OptionLists == UNION {[1..n -> OptionsPool] : n \in 0..MaxOptions}

\* func (c Client) SearchOptions(options ...SearchQuerier) (*Businesses, error)
SearchOptionsCall ==
  \E options \in OptionLists :
    LET r == SearchOptionsLoop(options)
    IN /\ args' = options
       /\ text' = <<>>
       /\ IF r.err /= NoError
          THEN /\ q' = r.sq
               /\ signed' = EmptyQuery
               /\ request' = <<>>
               /\ ret' = "error"
               /\ last' = Call("SearchOptions", NoOption, r.err)
          ELSE \E seed \in RandSeeds, now \in UnixTimes :
                 \E f \in Sign(client.signer, MethodGet, client.url, Frame(r.sq), seed, now) :
                   /\ q' = f.q
                   /\ signed' = f.qp
                   /\ request' = Join(<<client.url, String(f.qp)>>, <<63>>)
                   /\ \E outcome \in HttpOutcomes :
                        /\ ret' = SearchQueryReturn(outcome)
                        /\ last' = Call("SearchOptions", NoOption, SearchQueryError(outcome))
       /\ UNCHANGED <<client, manual, searches, runs, sorts, credentials, procs>>

NextOptions ==
  \/ SearchOptionsCall

OptionsSpec == Init /\ [][NextOptions]_vars

\* ----------------------------- the same options applied in two orders
\* the options the two SearchOptions calls are given: Limit(1), Limit(2),
\* Sort(distance), LocationWithHint("Delft", 0, 0)
OrderPool ==
  {SearchLimit(1), SearchLimit(2), SearchSort(1),
   SearchLocationCoordinates(<<68, 101, 108, 102, 116>>, 0, 0)}

OrderLists == UNION {[1..n -> OrderPool] : n \in 0..MaxOrderLen}

\* c.SearchOptions(options...) as the r-th of the two calls, up to the
\* return of Sign: the container is built from the options in their order
\* and, if every option returned nil, signed; out is what Sign left
OrderRun(r, options) ==
  /\ LET b == SearchOptionsLoop(options)
     IN \E seed \in RandSeeds, now \in UnixTimes :
          LET fa == SignAppends(client.signer, Frame(b.sq), seed, now)
              input == Elements(fa.qp)
          IN \E sorted \in SortOutcomes(sorts, input) :
               /\ runs' = [runs EXCEPT ![r] =
                    [done |-> TRUE, yoa |-> client.signer, method |-> MethodGet,
                     url |-> client.url, elements |-> Elements(b.sq),
                     mask |-> b.sq.mask, nonce |-> nonce(30, seed), now |-> now,
                     out |-> IF b.err /= NoError THEN <<>>
                             ELSE Elements(SignSorted(client.signer, MethodGet,
                                                      client.url, fa, sorted).qp),
                     options |-> options]]
               /\ sorts' = IF b.err /= NoError THEN sorts
                           ELSE sorts \cup {<<input, sorted>>}
  /\ UNCHANGED <<client, q, last, signed, request, ret, manual, searches,
                 credentials, args, text, procs>>

OrderFirst ==
  \E options \in OrderLists :
    /\ ~runs[1].done
    /\ OrderRun(1, options)
\* the second call is given the options of the first in any order
OrderSecond ==
  \E options \in Orders(runs[1].options) :
    /\ runs[1].done
    /\ ~runs[2].done
    /\ OrderRun(2, options)

NextOrder ==
  \/ OrderFirst
  \/ OrderSecond

OrderSpec == Init /\ [][NextOrder]_vars

\* ------------------------------- options with payloads at their limits
\* "", "Delft"
PayloadLocationNames == {<<>>, <<68, 101, 108, 102, 116>>}
\* latitude, longitude: the corners of the valid range, values one degree
\* outside it on each side, and values that are not numbers
PayloadLatLonValues ==
  {<<0, 0>>, <<-90, -180>>, <<90, 180>>, <<91, 0>>, <<-91, 0>>, <<0, 181>>,
   <<0, -181>>, <<NaN, 0>>, <<0, NaN>>}
\* the coordinates given as a hint next to a location name
PayloadHintValues == {<<0, 0>>, <<90, 180>>, <<91, 0>>, <<0, NaN>>}
PayloadBoundsValues ==
  {<<0, 0, 1, 1>>, <<-90, -180, 90, 180>>, <<-91, 0, 1, 1>>, <<0, 0, 1, 181>>,
   <<0, -181, 91, 0>>, <<NaN, 0, 1, 1>>, <<0, 0, 1, NaN>>}
\* {}, {"bar"}, {"ice cream", "bar"}
PayloadTermsValues ==
  {<<>>, << <<98, 97, 114>> >>,
   << <<105, 99, 101, 32, 99, 114, 101, 97, 109>>, <<98, 97, 114>> >>}
PayloadLimitValues == {-1, 0, 1, 20, 21, 25}
PayloadOffsetValues == {-1, 0, 1, 1000}
PayloadSortValues == {-1, 0, 1, 2, 3}
\* none; bars; active, restaurants; bars and the code after the last; the
\* code before the first; all eight; bars twice
PayloadCategoriesValues ==
  {<<>>, <<6>>, <<0, 7>>, <<6, 8>>, <<-1>>, <<0, 1, 2, 3, 4, 5, 6, 7>>, <<6, 6>>}
PayloadRadiusValues == {-1, 0, 40000, 40001}

TryCoordinates ==
  \E v \in PayloadLatLonValues :
    /\ Fits(SearchCoordinates(v[1], v[2]), MaxPayloadLen)
    /\ Applied(SearchCoordinates(v[1], v[2]))
TryLocation ==
  \E n \in PayloadLocationNames :
    /\ Fits(SearchLocation(n), MaxPayloadLen)
    /\ Applied(SearchLocation(n))
TryLocationCoordinates ==
  \E n \in PayloadLocationNames, v \in PayloadHintValues :
    /\ Fits(SearchLocationCoordinates(n, v[1], v[2]), MaxPayloadLen)
    /\ Applied(SearchLocationCoordinates(n, v[1], v[2]))
TryBounds ==
  \E v \in PayloadBoundsValues :
    /\ Fits(SearchBounds(v[1], v[2], v[3], v[4]), MaxPayloadLen)
    /\ Applied(SearchBounds(v[1], v[2], v[3], v[4]))
TryTerms ==
  \E t \in PayloadTermsValues :
    /\ Fits(SearchTerms(t), MaxPayloadLen)
    /\ Applied(SearchTerms(t))
TryLimit ==
  \E n \in PayloadLimitValues :
    /\ Fits(SearchLimit(n), MaxPayloadLen)
    /\ Applied(SearchLimit(n))
TryOffset ==
  \E n \in PayloadOffsetValues :
    /\ Fits(SearchOffset(n), MaxPayloadLen)
    /\ Applied(SearchOffset(n))
TrySort ==
  \E n \in PayloadSortValues :
    /\ Fits(SearchSort(n), MaxPayloadLen)
    /\ Applied(SearchSort(n))
TryCategories ==
  \E cs \in PayloadCategoriesValues :
    /\ Fits(SearchCategories(cs), MaxPayloadLen)
    /\ Applied(SearchCategories(cs))
TryRadius ==
  \E n \in PayloadRadiusValues :
    /\ Fits(SearchRadius(n), MaxPayloadLen)
    /\ Applied(SearchRadius(n))
TryDeals ==
  \E b \in BOOLEAN :
    /\ Fits(SearchDeals(b), MaxPayloadLen)
    /\ Applied(SearchDeals(b))

NextPayload ==
  \/ NewQuery
  \/ TryCoordinates
  \/ TryLocation
  \/ TryLocationCoordinates
  \/ TryBounds
  \/ TryTerms
  \/ TryLimit
  \/ TryOffset
  \/ TrySort
  \/ TryCategories
  \/ TryRadius
  \/ TryDeals

PayloadSpec == Init /\ [][NextPayload]_vars

\* ------------------------------- two goroutines applying to one container
\* the limits the goroutines apply: two valid ones and one out of range
RaceLimits == {1, 2, 21}

Other(g) == CHOOSE h \in Goroutines : h /= g

\* go SearchLimit(n).Query(&q), up to the call of Append: the flag is read
\* and the limit tested.  Nothing is locked: the steps that follow are the
\* goroutine's own, and the other goroutine's steps come in between in any order
RaceCheck ==
  \E g \in Goroutines, n \in RaceLimits :
    /\ procs[g].pc = "idle"
    /\ LET seen == MaskHas(q.mask, searchBitMaskLimit)
           invalid == n < 0 \/ n > 20
           h == procs[Other(g)]
       IN procs' = [procs EXCEPT ![g] =
            [pc |-> IF seen \/ invalid THEN "done" ELSE "append",
             opt |-> SearchLimit(n),
             slice |-> EmptyQuery.queries,
             err |-> IF seen THEN DuplicateError("SearchLimit")
                     ELSE IF invalid THEN InvalidError("SearchLimit")
                     ELSE NoError,
             after |-> h.pc = "done" /\ h.err = NoError]]
    /\ UNCHANGED <<client, q, last, signed, request, ret, manual, searches, runs,
                   sorts, credentials, args, text>>

\* sq.Append, the right-hand side append(q.queries, e): the slice is read
\* and the slice with the element added is made.  A slice of these
\* containers is always full when it is read (a goroutine starts from an
\* empty container and every allocation is of the length asked for or twice
\* the capacity of a full slice of one), so append allocates a new array.
RaceAppendLoad ==
  \E g \in Goroutines :
    /\ procs[g].pc = "append"
    /\ procs' = [procs EXCEPT ![g].pc = "store",
                              ![g].slice =
                                AppendSlice(q.queries,
                                  searchQueryElement(searchIdentifierLimit,
                                                     Itoa(procs[g].opt.ints[1])))]
    /\ UNCHANGED <<client, q, last, signed, request, ret, manual, searches, runs,
                   sorts, credentials, args, text>>

\* sq.Append, the assignment q.queries = ...
RaceAppendStore ==
  \E g \in Goroutines :
    /\ procs[g].pc = "store"
    /\ q' = [q EXCEPT !.queries = procs[g].slice]
    /\ procs' = [procs EXCEPT ![g].pc = "set"]
    /\ UNCHANGED <<client, last, signed, request, ret, manual, searches, runs,
                   sorts, credentials, args, text>>

\* sq.mask |= searchBitMaskLimit; return nil
RaceSet ==
  \E g \in Goroutines :
    /\ procs[g].pc = "set"
    /\ q' = [q EXCEPT !.mask = MaskOr(@, searchBitMaskLimit)]
    /\ procs' = [procs EXCEPT ![g].pc = "done"]
    /\ UNCHANGED <<client, last, signed, request, ret, manual, searches, runs,
                   sorts, credentials, args, text>>

NextRace ==
  \/ RaceCheck
  \/ RaceAppendLoad
  \/ RaceAppendStore
  \/ RaceSet

RaceSpec == Init /\ [][NextRace]_vars

\* ------------------------------------------------------------- claims
\* the category flag an option kind checks and sets
FlagOf(kind) ==
  CASE kind = "SearchTerms" -> searchBitMaskTerm
    [] kind = "SearchLimit" -> searchBitMaskLimit
    [] kind = "SearchOffset" -> searchBitMaskOffset
    [] kind = "SearchSort" -> searchBitMaskSort
    [] kind = "SearchCategories" -> searchBitMaskCategory
    [] kind = "SearchRadius" -> searchBitMaskRadius
    [] kind = "SearchDeals" -> searchBitMaskDeals
    [] OTHER -> searchBitMaskLocation

LocationKinds == {"SearchLocation", "SearchCoordinates",
                  "SearchLocationCoordinates", "SearchBounds"}
OtherKinds == {"SearchTerms", "SearchLimit", "SearchOffset", "SearchSort",
               "SearchCategories", "SearchRadius", "SearchDeals"}

\* the payload of an option satisfies the documented constraint of its variant
ValidPayload(o) ==
  CASE o.kind = "SearchLocation" -> Len(o.strs[1]) > 0
    [] o.kind = "SearchCoordinates" ->
         o.ints[1] >= -90 /\ o.ints[1] <= 90 /\ o.ints[2] >= -180 /\ o.ints[2] <= 180
    [] o.kind = "SearchLocationCoordinates" ->
         /\ Len(o.strs[1]) > 0
         /\ o.ints[1] >= -90 /\ o.ints[1] <= 90 /\ o.ints[2] >= -180 /\ o.ints[2] <= 180
    [] o.kind = "SearchBounds" ->
         /\ o.ints[1] >= -90 /\ o.ints[1] <= 90 /\ o.ints[2] >= -180 /\ o.ints[2] <= 180
         /\ o.ints[3] >= -90 /\ o.ints[3] <= 90 /\ o.ints[4] >= -180 /\ o.ints[4] <= 180
    [] o.kind = "SearchTerms" -> Len(o.strs) > 0
    [] o.kind = "SearchLimit" -> o.ints[1] >= 0 /\ o.ints[1] <= 20
    [] o.kind = "SearchOffset" -> o.ints[1] >= 0
    [] o.kind = "SearchSort" -> o.ints[1] \in {0, 1, 2}
    [] o.kind = "SearchCategories" ->
         Len(o.ints) > 0 /\ \A i \in 1..Len(o.ints) : o.ints[i] \in 0..7
    [] o.kind = "SearchRadius" -> o.ints[1] >= 0 /\ o.ints[1] <= 40000
    [] o.kind = "SearchDeals" -> TRUE
    [] OTHER -> FALSE

\* the step is an option application (last' describes it)
IsApplication == last'.call = "Query"
Failed == last'.err.Kind /= "nil"
SameContainer == Elements(q') = Elements(q) /\ q'.mask = q.mask

\* C1: an option application that returns an error leaves the element list
\* and the flags of the container as they were before the call.
C1_NoPartialApplication ==
  [][(IsApplication /\ Failed) => SameContainer]_vars

\* C2: as long as the container is filled by option applications only, no
\* name occurs on two of its elements.
C2_WireKeysUnique ==
  manual = FALSE =>
    \A i, j \in 1..Len(Elements(q)) :
      i /= j => Elements(q)[i].Name /= Elements(q)[j].Name

\* C3: a SearchQuery call leaves the caller's container with the elements, in
\* the order, and the flags it had before the call.
C3_SignKeepsCaller ==
  [][last'.call = "SearchQuery" => SameContainer]_vars

Succeeded == last'.err.Kind = "nil"
FlagSet(sq, kind) == MaskHas(sq.mask, FlagOf(kind))

\* C4: a location-family option (Location, Coordinates, LocationWithHint,
\* Bounds) with a valid payload succeeds on a fresh container and sets the
\* location flag; applied to a container whose location flag is set (so after
\* any of the four), it fails with the duplicate error and adds no element.
C4_LocationExclusive ==
  [][(IsApplication /\ last'.opt.kind \in LocationKinds /\ ValidPayload(last'.opt)) =>
       /\ q = EmptyQuery =>
            Succeeded /\ q'.mask = searchBitMaskLocation /\ Len(Elements(q')) >= 1
       /\ MaskHas(q.mask, searchBitMaskLocation) =>
            last'.err.Kind = "duplicate" /\ Elements(q') = Elements(q)]_vars

\* C4 witness: a valid location-family option was rejected as a duplicate on a
\* container that holds exactly what one earlier location-family option put there.
C4_Witness ==
  /\ last.call = "Query" /\ last.opt.kind = "SearchBounds" /\ ValidPayload(last.opt)
  /\ last.err.Kind = "duplicate"
  /\ q.mask = searchBitMaskLocation
  /\ Len(Elements(q)) = 2
  /\ Elements(q)[2].Name = searchIdentifierCoordinatesHint

\* C5: for the seven categories Terms, Limit, Offset, Sort, Categories, Radius
\* and Deals, a valid option succeeds and sets its flag when its flag is
\* unset, and fails with the duplicate error, changing nothing, when its flag
\* is set, whatever the other flags are.
C5_DuplicateRejected ==
  [][(IsApplication /\ last'.opt.kind \in OtherKinds /\ ValidPayload(last'.opt)) =>
       IF FlagSet(q, last'.opt.kind)
       THEN last'.err.Kind = "duplicate" /\ SameContainer
       ELSE Succeeded /\ FlagSet(q', last'.opt.kind)]_vars

\* C5 witness: a second valid Limit was rejected as a duplicate after a Limit
\* and an option of another category had been applied.
C5_Witness ==
  /\ last.call = "Query" /\ last.opt.kind = "SearchLimit" /\ ValidPayload(last.opt)
  /\ last.err.Kind = "duplicate"
  /\ q.mask = searchBitMaskLimit + searchBitMaskTerm
  /\ Len(Elements(q)) = 2
  /\ Elements(q)[1].Name = searchIdentifierLimit
  /\ Elements(q)[1].Value /= Itoa(last.opt.ints[1])

\* C6: a valid option applied to a fresh container, or to a container on
\* which exactly one flag, of another category, is set, succeeds and sets
\* its own flag next to the other.
C6_CategoriesIndependent ==
  [][(/\ IsApplication /\ ValidPayload(last'.opt)
      /\ \/ q = EmptyQuery
         \/ q.mask \in AllBits /\ q.mask /= FlagOf(last'.opt.kind)) =>
       /\ Succeeded
       /\ q'.mask = q.mask + FlagOf(last'.opt.kind)]_vars

\* C6 witness: two options of different categories were both accepted.
C6_Witness ==
  /\ last.call = "Query" /\ last.err.Kind = "nil" /\ last.opt.kind = "SearchLimit"
  /\ q.mask = searchBitMaskTerm + searchBitMaskLimit
  /\ Len(Elements(q)) = 2
  /\ Elements(q)[1].Name = searchIdentifierTerm
  /\ Elements(q)[2].Name = searchIdentifierLimit

\* C7: on one container a set flag stays set; a flag becomes set only in a
\* successful application of an option of its category; and an application
\* succeeds only when the flag of its category is unset, so that a category
\* is applied successfully at most once.
C7_FlagsMonotonic ==
  [][last'.call /= "new" =>
       /\ \A bit \in AllBits :
            /\ MaskHas(q.mask, bit) => MaskHas(q'.mask, bit)
            /\ (~MaskHas(q.mask, bit) /\ MaskHas(q'.mask, bit)) =>
                 IsApplication /\ Succeeded /\ FlagOf(last'.opt.kind) = bit
       /\ (IsApplication /\ Succeeded) =>
            ~FlagSet(q, last'.opt.kind) /\ FlagSet(q', last'.opt.kind)]_vars

\* C7 witness: the location flag is set and the last call, a manual append
\* of a second element, kept it.
C7_Witness ==
  /\ last.call = "Append"
  /\ MaskHas(q.mask, searchBitMaskLocation)
  /\ Len(Elements(q)) = 2

\* the number of elements of seq equal to x
RECURSIVE Count(_, _)
Count(seq, x) ==
  IF seq = <<>> THEN 0
  ELSE (IF seq[1] = x THEN 1 ELSE 0) + Count(Tail(seq), x)

\* two sequences hold the same elements the same number of times
SameBag(a, b) ==
  /\ Len(a) = Len(b)
  /\ \A i \in 1..Len(a) : Count(a, a[i]) = Count(b, a[i])

\* the names of seq are in non-decreasing byte-wise order
NamesSorted(seq) ==
  \A i \in 1..(Len(seq) - 1) : ~StrLess(seq[i + 1].Name, seq[i].Name)

\* s ends with t
EndsWith(s, t) ==
  Len(s) >= Len(t) /\ SubSeq(s, Len(s) - Len(t) + 1, Len(s)) = t

\* C8: when Sign has returned, the last element of the signed container is
\* oauth_signature, and the requested query string ends with that pair, also
\* when elements whose names sort after oauth_signature are present.
C8_SignatureLast ==
  last.call = "SearchQuery" =>
    LET es == Elements(signed)
    IN /\ Len(es) >= 1
       /\ es[Len(es)].Name = oauthSignature
       /\ EndsWith(request, oauthSignature \o <<61>> \o es[Len(es)].Value)

\* C8 witness: a container was signed in which a term element, whose name
\* sorts after oauth_signature, stands right before the signature.
C8_Witness ==
  /\ last.call = "SearchQuery"
  /\ Len(Elements(signed)) >= 7
  /\ Elements(signed)[Len(Elements(signed)) - 1].Name = searchIdentifierTerm
  /\ Elements(signed)[Len(Elements(signed))].Name = oauthSignature

\* C9: Sign turns a container of elements E into one of |E|+6 elements, of
\* which all but the last are, as a multiset, E and the five elements
\* oauth_consumer_key=ConsumerKey, oauth_nonce=(30 characters of the nonce
\* alphabet), oauth_signature_method=HMAC-SHA1, oauth_timestamp=(seconds in
\* decimal), oauth_token=Token, in non-decreasing order of name.
C9_SignPostcondition ==
  [][last'.call = "SearchQuery" =>
       LET E == Elements(q)
           es == Elements(signed')
           body == SubSeq(es, 1, Len(es) - 1)
       IN /\ Len(es) = Len(E) + 6
          /\ NamesSorted(body)
          /\ \E nonceValue \in {body[i].Value : i \in 1..Len(body)}, now \in UnixTimes :
               /\ Len(nonceValue) = 30
               /\ \A k \in 1..30 :
                    \E c \in 1..Len(nonceCharacters) : nonceValue[k] = nonceCharacters[c]
               /\ SameBag(body,
                    E \o << searchQueryElement(oauthConsumerKey, client.signer.ConsumerKey),
                            searchQueryElement(oauthNonce, nonceValue),
                            searchQueryElement(oauthSignatureMethod, HmacSha1Name),
                            searchQueryElement(oauthTimestamp, Itoa(now)),
                            searchQueryElement(oauthToken, client.signer.Token) >>)]_vars

\* C9 witness: a container of nine elements was signed into one of fifteen.
C9_Witness ==
  /\ last.call = "SearchQuery"
  /\ Len(Elements(signed)) = 15
  /\ Elements(signed)[1].Name = searchIdentifierLimit

\* the value of the oauth_signature element Sign appended
SignatureOf(out) == out[Len(out)].Value

\* both calls of Sign were made, with one method, url, container contents,
\* nonce, timestamp and hash key
SameListedInputs ==
  /\ runs[1].done /\ runs[2].done
  /\ runs[1].method = runs[2].method
  /\ runs[1].url = runs[2].url
  /\ runs[1].elements = runs[2].elements
  /\ runs[1].nonce = runs[2].nonce
  /\ runs[1].now = runs[2].now
  /\ runs[1].yoa.hashKey = runs[2].yoa.hashKey

SameOutput ==
  /\ SignatureOf(runs[1].out) = SignatureOf(runs[2].out)
  /\ runs[1].out = runs[2].out

\* C10 as stated: two calls of Sign with the same method, url, container
\* contents, nonce, timestamp and hash key leave the same oauth_signature and
\* the same container.
C10_DeterministicAsStated == SameListedInputs => SameOutput

\* C10 amended: two calls of Sign with the same method, url, container
\* contents, nonce, timestamp, hash key, consumer key and token leave the
\* same oauth_signature and the same container.
C10_Deterministic ==
  (/\ SameListedInputs
   /\ runs[1].yoa.ConsumerKey = runs[2].yoa.ConsumerKey
   /\ runs[1].yoa.Token = runs[2].yoa.Token) => SameOutput

\* C10 witness: Sign was called twice with the same inputs on two elements of
\* one name, which the sort may put in either order, and left the same output.
C10_Witness ==
  /\ SameListedInputs
  /\ runs[1].yoa = runs[2].yoa
  /\ Len(runs[1].elements) = 2
  /\ runs[1].elements[1].Name = runs[1].elements[2].Name
  /\ SameOutput

\* the number a string of decimal digits stands for
RECURSIVE DecimalValue(_)
DecimalValue(v) ==
  IF v = <<>> THEN 0
  ELSE DecimalValue(SubSeq(v, 1, Len(v) - 1)) * 10 + (v[Len(v)] - 48)

\* v is the decimal string of the natural number n: digits only, no leading
\* zero, standing for n
IsDecimalOf(v, n) ==
  /\ Len(v) >= 1
  /\ \A i \in 1..Len(v) : v[i] >= 48 /\ v[i] <= 57
  /\ Len(v) > 1 => v[1] /= 48
  /\ DecimalValue(v) = n

IntegerKinds == {"SearchLimit", "SearchOffset", "SearchSort", "SearchRadius"}

\* the documented range of an integer-valued option
InDocumentedRange(kind, n) ==
  CASE kind = "SearchLimit" -> 0 <= n /\ n <= 20
    [] kind = "SearchRadius" -> 0 <= n /\ n <= 40000
    [] kind = "SearchOffset" -> n >= 0
    [] kind = "SearchSort" -> n = 0 \/ n = 1 \/ n = 2

\* the wire key of an integer-valued option
IntegerKey(kind) ==
  CASE kind = "SearchLimit" -> searchIdentifierLimit
    [] kind = "SearchRadius" -> searchIdentifierRadius
    [] kind = "SearchOffset" -> searchIdentifierOffset
    [] kind = "SearchSort" -> searchIdentifierSort

\* C11: on a fresh container Limit(n) succeeds iff 0 <= n <= 20, Radius(n) iff
\* 0 <= n <= 40000, Offset(n) iff n >= 0, Sort(n) iff n is 0, 1 or 2; a value
\* out of range fails with an invalid-value error, and an accepted value is
\* appended, under the option's key, as its decimal string.
C11_IntegerRanges ==
  [][(IsApplication /\ last'.opt.kind \in IntegerKinds /\ q = EmptyQuery) =>
       LET kind == last'.opt.kind
           n == last'.opt.ints[1]
       IN IF InDocumentedRange(kind, n)
          THEN /\ Succeeded
               /\ Len(Elements(q')) = 1
               /\ Elements(q')[1].Name = IntegerKey(kind)
               /\ IsDecimalOf(Elements(q')[1].Value, n)
          ELSE last'.err.Kind = "invalid" /\ SameContainer]_vars

\* C11 witness: Radius(40000), the largest radius, was accepted on a fresh
\* container and stands there as radius_filter=40000.
C11_Witness ==
  /\ last.call = "Query" /\ last.opt = SearchRadius(40000) /\ last.err.Kind = "nil"
  /\ Elements(q) = <<searchQueryElement(searchIdentifierRadius, <<52, 48, 48, 48, 48>>)>>

\* C12: Location with an empty name, or LocationWithHint with an empty
\* location name, applied to a fresh container fails with an invalid-value
\* error and appends nothing.
C12_EmptyLocationRejected ==
  [][(/\ IsApplication
      /\ last'.opt.kind \in {"SearchLocation", "SearchLocationCoordinates"}
      /\ last'.opt.strs[1] = <<>>
      /\ q = EmptyQuery) =>
       last'.err.Kind = "invalid" /\ Elements(q') = <<>>]_vars

\* C13: Terms with an empty list of terms applied to a fresh container fails
\* with an invalid-value error, appends no term element and leaves the term
\* flag unset.
C13_EmptyTermsRejected ==
  [][(/\ IsApplication
      /\ last'.opt.kind = "SearchTerms"
      /\ last'.opt.strs = <<>>
      /\ q = EmptyQuery) =>
       /\ last'.err.Kind = "invalid"
       /\ Elements(q') = <<>>
       /\ ~MaskHas(q'.mask, searchBitMaskTerm)]_vars

\* -90 <= lat <= 90 and -180 <= lon <= 180, which no value that is not a
\* number satisfies
InRange(lat, lon) ==
  /\ lat /= NaN /\ lon /= NaN
  /\ -90 <= lat /\ lat <= 90 /\ -180 <= lon /\ lon <= 180

\* C14: on a container whose location flag is unset, Coordinates(lat, lon)
\* succeeds iff -90 <= lat <= 90 and -180 <= lon <= 180, LocationWithHint
\* succeeds only if its coordinates satisfy that, Bounds succeeds iff both its
\* corners satisfy it; a violation is reported as an invalid-value error.
C14_LatLonValidated ==
  [][(IsApplication /\ ~MaskHas(q.mask, searchBitMaskLocation)) =>
       LET o == last'.opt
       IN /\ o.kind = "SearchCoordinates" =>
               IF InRange(o.ints[1], o.ints[2])
               THEN Succeeded ELSE last'.err.Kind = "invalid"
          /\ o.kind = "SearchLocationCoordinates" =>
               IF InRange(o.ints[1], o.ints[2])
               THEN TRUE ELSE last'.err.Kind = "invalid"
          /\ o.kind = "SearchBounds" =>
               IF InRange(o.ints[1], o.ints[2]) /\ InRange(o.ints[3], o.ints[4])
               THEN Succeeded ELSE last'.err.Kind = "invalid"]_vars

\* the short names of the codes 0..7, as documented: active, arts, auto,
\* beautysvc, golf, nightlife, bars, restaurants
DocumentedShortNames ==
  << <<97, 99, 116, 105, 118, 101>>,
     <<97, 114, 116, 115>>,
     <<97, 117, 116, 111>>,
     <<98, 101, 97, 117, 116, 121, 115, 118, 99>>,
     <<103, 111, 108, 102>>,
     <<110, 105, 103, 104, 116, 108, 105, 102, 101>>,
     <<98, 97, 114, 115>>,
     <<114, 101, 115, 116, 97, 117, 114, 97, 110, 116, 115>> >>

\* C15: on a container whose category-filter flag is unset, Categories(list)
\* succeeds iff the list is non-empty and every code is one of 0..7; it then
\* appends exactly one category_filter element whose value is the short names
\* of the codes in list order joined by ',', with no comma at either end;
\* otherwise it fails with an invalid-value error.
C15_CategoriesJoined ==
  [][(/\ IsApplication
      /\ last'.opt.kind = "SearchCategories"
      /\ ~MaskHas(q.mask, searchBitMaskCategory)) =>
       LET codes == last'.opt.ints
           names == [i \in 1..Len(codes) |-> DocumentedShortNames[codes[i] + 1]]
       IN IF Len(codes) > 0 /\ \A i \in 1..Len(codes) : codes[i] \in 0..7
          THEN /\ Succeeded
               /\ Len(Elements(q')) = Len(Elements(q)) + 1
               /\ SubSeq(Elements(q'), 1, Len(Elements(q))) = Elements(q)
               /\ LET e == Elements(q')[Len(Elements(q'))]
                  IN /\ e.Name = searchIdentifierCategory
                     /\ e.Value = Join(names, <<44>>)
                     /\ e.Value[1] /= 44
                     /\ e.Value[Len(e.Value)] /= 44
          ELSE last'.err.Kind = "invalid"]_vars

\* C15 witness: Categories(active, restaurants) was accepted and stands in
\* the container as category_filter=active,restaurants.
C15_Witness ==
  /\ last.call = "Query" /\ last.opt = SearchCategories(<<0, 7>>)
  /\ last.err.Kind = "nil"
  /\ Elements(q) = <<searchQueryElement(searchIdentifierCategory,
                       <<97, 99, 116, 105, 118, 101, 44, 114, 101, 115, 116, 97, 117, 114, 97, 110, 116, 115>>)>>

\* the container after the first k of the options were applied one after the
\* other, whatever each returned
RECURSIVE AppliedPrefix(_, _)
AppliedPrefix(options, k) ==
  IF k = 0 THEN EmptyQuery
  ELSE Query(options[k], AppliedPrefix(options, k - 1)).sq

\* what the k-th option returns, applied after the ones before it
ErrorAt(options, k) == Query(options[k], AppliedPrefix(options, k - 1)).err

\* C16: when the k-th option of a SearchOptions call is the first to fail,
\* the call returns that option's error (embedded in the client's), the
\* container it built holds what the first k applications left, nothing was
\* signed and nothing requested; when no option fails the container is signed
\* and the request is made.
C16_StopsAtFirstFailure ==
  [][last'.call = "SearchOptions" =>
       LET options == args'
           failing == {k \in 1..Len(options) : ErrorAt(options, k) /= NoError}
       IN IF failing /= {}
          THEN LET k == CHOOSE i \in failing : \A j \in failing : i <= j
               IN /\ last'.err.Kind = "embedded"
                  /\ last'.err.Embedded = ErrorAt(options, k)
                  /\ q' = AppliedPrefix(options, k)
                  /\ signed' = EmptyQuery
                  /\ request' = <<>>
                  /\ ret' = "error"
          ELSE /\ Len(Elements(signed')) = Len(Elements(AppliedPrefix(options, Len(options)))) + 6
               /\ Elements(signed')[Len(Elements(signed'))].Name = oauthSignature
               /\ request' = client.url \o <<63>> \o String(signed')]_vars

\* C16 witness: SearchOptions(Limit(21), Sort(distance)) returned the error
\* of Limit(21); the sort option was not applied, nothing was signed or
\* requested.
C16_Witness ==
  /\ last.call = "SearchOptions"
  /\ args = <<SearchLimit(21), SearchSort(1)>>
  /\ last.err.Kind = "embedded"
  /\ last.err.Embedded = InvalidError("SearchLimit")
  /\ Elements(q) = <<>>
  /\ signed = EmptyQuery
  /\ request = <<>>

\* one of the four credentials the client was constructed from is empty
Unconfigured == \E i \in 1..4 : credentials[i] = <<>>

\* C17: constructing a client from an empty consumer key, consumer secret,
\* token or token secret reports an error, and nothing is ever signed with
\* such a client.
C17_CredentialsChecked ==
  Unconfigured =>
    /\ last.call = "New" => last.err.Kind /= "nil"
    /\ signed = EmptyQuery

\* the upper-case hexadecimal digit of n in 0..15
HexDigit(n) == IF n < 10 THEN 48 + n ELSE 55 + n

\* the documented encoding of one byte: unreserved bytes as they are, the
\* comma as %252C, any other byte as % and its two hexadecimal digits
ByteEncoding(c) ==
  IF \/ c >= 65 /\ c <= 90
     \/ c >= 97 /\ c <= 122
     \/ c >= 48 /\ c <= 57
     \/ c \in {45, 46, 95, 126}
  THEN <<c>>
  ELSE IF c = 44 THEN <<37, 50, 53, 50, 67>>
  ELSE <<37, HexDigit(c \div 16), HexDigit(c % 16)>>

\* the encodings of the bytes of s one after the other
RECURSIVE BytesEncoded(_)
BytesEncoded(s) ==
  IF s = <<>> THEN <<>> ELSE ByteEncoding(s[1]) \o BytesEncoded(Tail(s))

\* C18: percentEncode returns the per-byte encodings of its input in input
\* order: an unreserved byte unchanged, the comma as %252C, every other byte
\* as % and its two upper-case hexadecimal digits; so "" gives "", "abc abc"
\* gives "abc%20abc", "abc!abc@abc" gives "abc%21abc%40abc", "abc-abc_abc"
\* gives itself and "abc=abc+abc" gives "abc%3Dabc%2Babc".
C18_PerByteEncoding ==
  last.call = "percentEncode" =>
    /\ text = BytesEncoded(args[1])
    /\ args[1] = <<>> => text = <<>>
    /\ args[1] = <<97, 98, 99, 32, 97, 98, 99>> =>
         text = <<97, 98, 99, 37, 50, 48, 97, 98, 99>>
    /\ args[1] = <<97, 98, 99, 33, 97, 98, 99, 64, 97, 98, 99>> =>
         text = <<97, 98, 99, 37, 50, 49, 97, 98, 99, 37, 52, 48, 97, 98, 99>>
    /\ args[1] = <<97, 98, 99, 45, 97, 98, 99, 95, 97, 98, 99>> =>
         text = <<97, 98, 99, 45, 97, 98, 99, 95, 97, 98, 99>>
    /\ args[1] = <<97, 98, 99, 61, 97, 98, 99, 43, 97, 98, 99>> =>
         text = <<97, 98, 99, 37, 51, 68, 97, 98, 99, 37, 50, 66, 97, 98, 99>>

\* the sum of the lengths of the names and values of es
RECURSIVE PairBytes(_)
PairBytes(es) ==
  IF es = <<>> THEN 0
  ELSE Len(es[1].Name) + Len(es[1].Value) + PairBytes(Tail(es))

\* C19: String returns "" for a container of no elements; for n >= 1
\* elements it returns the pairs name=value in the container's order with
\* one '&' between neighbours, n-1 in all and none at either end; it leaves
\* the container as it was.
C19_Serialize ==
  [][last'.call = "String" =>
       LET es == Elements(q)
           n == Len(es)
           pairs == [i \in 1..n |-> es[i].Name \o <<61>> \o es[i].Value]
       IN /\ q' = q
          /\ n = 0 => text' = <<>>
          /\ text' = Join(pairs, <<38>>)
          /\ n >= 1 =>
               /\ Len(text') = PairBytes(es) + n + (n - 1)
               /\ SubSeq(text', 1, Len(pairs[1])) = pairs[1]
               /\ EndsWith(text', pairs[n])]_vars

\* C19 witness: a container of limit=5 and location=Delft was serialized to
\* limit=5&location=Delft.
C19_Witness ==
  /\ last.call = "String"
  /\ Len(Elements(q)) = 2
  /\ Elements(q)[1] = searchQueryElement(searchIdentifierLimit, <<53>>)
  /\ text = <<108, 105, 109, 105, 116, 61, 53, 38, 108, 111, 99, 97, 116, 105, 111, 110, 61, 68, 101, 108, 102, 116>>

\* C20: Append(name, value) succeeds for any name and value, a name already
\* present included: afterwards the elements are the earlier ones, unchanged
\* and in their places, followed by the new one, and the flags are as before.
C20_AppendFrame ==
  [][last'.call = "Append" =>
       /\ last'.err.Kind = "nil"
       /\ Len(Elements(q')) = Len(Elements(q)) + 1
       /\ \A i \in 1..Len(Elements(q)) : Elements(q')[i] = Elements(q)[i]
       /\ Elements(q')[Len(Elements(q'))] =
            searchQueryElement(last'.opt.strs[1], last'.opt.strs[2])
       /\ q'.mask = q.mask]_vars

\* C20 witness: term=bar was appended as the ninth element, which outgrows
\* the backing array of eight, to a container that already holds a term
\* element and has the limit and sort flags set.
C20_Witness ==
  /\ last.call = "Append"
  /\ Len(Elements(q)) = 9
  /\ Elements(q)[9] = searchQueryElement(searchIdentifierTerm, <<98, 97, 114>>)
  /\ Elements(q)[8].Name = searchIdentifierTerm
  /\ Elements(q)[1].Name = searchIdentifierLimit
  /\ q.mask = searchBitMaskLimit + searchBitMaskSort

\* C21: after Sort the names of the elements are in non-decreasing byte-wise
\* order, the elements are the ones before the call, each name with its own
\* value and as many times as before, and the flags are unchanged.
C21_SortPermutes ==
  [][last'.call = "Sort" =>
       /\ NamesSorted(Elements(q'))
       /\ SameBag(Elements(q'), Elements(q))
       /\ q'.mask = q.mask]_vars

\* C21 witness: Sort reordered a container of three elements, two of them
\* named term, that has the sort flag set: sort=1 came first.
C21_Witness ==
  /\ last.call = "Sort"
  /\ Len(args[1]) = 3
  /\ args[1] /= Elements(q)
  /\ args[1][1].Name = searchIdentifierTerm
  /\ args[1][2].Name = searchIdentifierSort
  /\ args[1][3].Name = searchIdentifierTerm
  /\ Elements(q)[1].Name = searchIdentifierSort
  /\ q.mask = searchBitMaskSort

\* the 62 characters a-z, A-Z and 0-9
NonceAlphabet == (97..122) \cup (65..90) \cup (48..57)

\* s has n characters, all of the alphabet
IsNonceOf(s, n) == Len(s) = n /\ \A k \in 1..Len(s) : s[k] \in NonceAlphabet

\* C22: nonce(length) returns exactly length characters for every length
\* from 0 on, each one of the 62 characters a-z, A-Z, 0-9, the index into the
\* alphabet being within 0..61 every time; the nonce Sign appends has 30.
C22_NonceShape ==
  /\ Cardinality(NonceAlphabet) = 62
  /\ last.call = "nonce" =>
       /\ IsNonceOf(text, args[1])
       /\ \A i \in 1..args[1] : RandInt(args[2], i) % Len(nonceCharacters) \in 0..61
  /\ last.call = "SearchQuery" =>
       LET es == Elements(signed)
           at == {i \in 1..Len(es) : es[i].Name = oauthNonce}
       IN /\ Cardinality(at) = 1
          /\ \A i \in at : IsNonceOf(es[i].Value, 30)

\* C22 witness: nonce(30) returned thirty characters that are not all the
\* same, a letter among them.
C22_Witness ==
  /\ last.call = "nonce"
  /\ args[1] = 30
  /\ Len(text) = 30
  /\ text[1] /= text[2]
  /\ \E k \in 1..30 : text[k] \in 65..90

\* the pairs name=value of es with an '&' between neighbours
RECURSIVE PairsJoined(_)
PairsJoined(es) ==
  IF es = <<>> THEN <<>>
  ELSE es[1].Name \o <<61>> \o es[1].Value \o
       (IF Len(es) = 1 THEN <<>> ELSE <<38>> \o PairsJoined(Tail(es)))

\* C23: the string Sign signs is method & percentEncode(url) &
\* percentEncode(S), S being the serialization of the container after the five
\* oauth elements were appended and it was sorted and before oauth_signature
\* is appended: S holds every caller element and the five oauth parameters in
\* sorted order and no oauth_signature pair; the key is
\* percentEncode(consumerSecret) & percentEncode(tokenSecret) as New fixed
\* it, and Sign does not change it.
C23_BaseString ==
  [][last'.call = "SearchQuery" =>
       \A E \in {Elements(q)}, es \in {Elements(signed')} :
         \A body \in {SubSeq(es, 1, Len(es) - 1)} :
           \A S \in {PairsJoined(body)},
              key \in {percentEncode(credentials[2]) \o <<38>> \o
                       percentEncode(credentials[4])} :
             \A base \in {MethodGet \o <<38>> \o percentEncode(client.url) \o <<38>> \o
                           percentEncode(S)} :
               /\ es[Len(es)] = searchQueryElement(oauthSignature,
                                                   percentEncode(HmacSha1Base64(key, base)))
               /\ Len(body) = Len(E) + 5
               /\ NamesSorted(body)
               /\ \A i \in 1..Len(E) : Count(body, E[i]) >= Count(E, E[i])
               /\ \A n \in {oauthConsumerKey, oauthNonce, oauthSignatureMethod,
                            oauthTimestamp, oauthToken} :
                    \E i \in 1..Len(body) : body[i].Name = n
               /\ \A i \in 1..Len(body) : body[i].Name /= oauthSignature
               /\ client.signer.hashKey = key
               /\ client' = client]_vars

\* C23 witness: a client made with both secrets signed a container that
\* holds two term elements.
C23_Witness ==
  /\ last.call = "SearchQuery"
  /\ Len(Elements(signed)) = 8
  /\ credentials[2] = <<99, 115>>
  /\ credentials[4] = <<116, 115>>
  /\ client.signer.hashKey = <<99, 115, 38, 116, 115>>
  /\ Count(Elements(signed), searchQueryElement(searchIdentifierTerm, <<98, 97, 114>>)) = 2

\* the documented wire key of an option kind that appends one element
WireKey(kind) ==
  CASE kind = "SearchLocation" -> <<108, 111, 99, 97, 116, 105, 111, 110>>
    [] kind = "SearchCoordinates" -> <<108, 108>>
    [] kind = "SearchBounds" -> <<98, 111, 117, 110, 100, 115>>
    [] kind = "SearchTerms" -> <<116, 101, 114, 109>>
    [] kind = "SearchLimit" -> <<108, 105, 109, 105, 116>>
    [] kind = "SearchOffset" -> <<111, 102, 102, 115, 101, 116>>
    [] kind = "SearchSort" -> <<115, 111, 114, 116>>
    [] kind = "SearchCategories" ->
         <<99, 97, 116, 101, 103, 111, 114, 121, 95, 102, 105, 108, 116, 101, 114>>
    [] kind = "SearchRadius" ->
         <<114, 97, 100, 105, 117, 115, 95, 102, 105, 108, 116, 101, 114>>
    [] kind = "SearchDeals" ->
         <<100, 101, 97, 108, 115, 95, 102, 105, 108, 116, 101, 114>>

\* C24: a successful option application appends exactly one element, named
\* by the wire key of its variant (the value of deals_filter being "true" or
\* "false"), except LocationWithHint, which appends two, location and then
\* cll; the elements already there keep their values and places, and exactly
\* one flag, the one of the variant's category, changes.
C24_AppendsWireKey ==
  [][(IsApplication /\ Succeeded) =>
       \A old \in {Elements(q)}, new \in {Elements(q')}, kind \in {last'.opt.kind} :
         /\ SubSeq(new, 1, Len(old)) = old
         /\ IF kind = "SearchLocationCoordinates"
            THEN /\ Len(new) = Len(old) + 2
                 /\ new[Len(old) + 1].Name = <<108, 111, 99, 97, 116, 105, 111, 110>>
                 /\ new[Len(old) + 2].Name = <<99, 108, 108>>
            ELSE /\ Len(new) = Len(old) + 1
                 /\ new[Len(new)].Name = WireKey(kind)
                 /\ kind = "SearchDeals" =>
                      new[Len(new)].Value \in {<<116, 114, 117, 101>>,
                                               <<102, 97, 108, 115, 101>>}
         /\ ~MaskHas(q.mask, FlagOf(kind))
         /\ q'.mask = q.mask + FlagOf(kind)
         /\ \A b \in AllBits : b /= FlagOf(kind) => (MaskHas(q'.mask, b) <=> MaskHas(q.mask, b))]_vars

\* C24 witness: SearchLocationCoordinates put location=Delft and a cll
\* element into a fresh container and set the location flag alone.
C24_Witness ==
  /\ last.call = "Query"
  /\ last.opt.kind = "SearchLocationCoordinates"
  /\ last.err.Kind = "nil"
  /\ Len(Elements(q)) = 2
  /\ Elements(q)[1] = searchQueryElement(searchIdentifierLocation, <<68, 101, 108, 102, 116>>)
  /\ Elements(q)[2].Name = searchIdentifierCoordinatesHint
  /\ q.mask = searchBitMaskLocation

\* the elements of sq named limit
LimitElements(sq) ==
  {i \in 1..Len(Elements(sq)) : Elements(sq)[i].Name = <<108, 105, 109, 105, 116>>}

\* C25: nothing locks the check and the set of a category flag.  Two
\* applications of options of one category that run concurrently on one
\* container and interleave between the check and the set can both return
\* success, the container then holding two elements of that category (the
\* witness); an application that begins after the other one has returned
\* success is rejected as a duplicate and adds nothing.
C25_SequentialRejects ==
  \A g \in Goroutines :
    (procs[g].pc = "done" /\ procs[g].after) =>
      /\ procs[g].err.Kind = "duplicate"
      /\ procs[Other(g)].err.Kind = "nil"
      /\ Cardinality(LimitElements(q)) = 1
      /\ MaskHas(q.mask, searchBitMaskLimit)

\* C25 witness: both goroutines returned nil, neither having begun after
\* the other returned, and the container holds limit=1 and limit=2.
C25_Witness ==
  /\ \A g \in Goroutines :
       procs[g].pc = "done" /\ procs[g].err.Kind = "nil" /\ ~procs[g].after
  /\ Len(Elements(q)) = 2
  /\ Cardinality(LimitElements(q)) = 2
  /\ Elements(q)[1].Value /= Elements(q)[2].Value
  /\ q.mask = searchBitMaskLimit

\* the characters strings are made of here: 'a', 'Z', ' ', ',', '~' and
\* U+0101, U+012C, U+0141, U+016C
CodePoints == {97, 90, 32, 44, 126, 257, 300, 321, 364}

\* the UTF-8 encoding of a character below U+0800
Utf8(c) == IF c < 128 THEN <<c>> ELSE <<192 + (c \div 64), 128 + (c % 64)>>

RECURSIVE Utf8String(_)
Utf8String(cps) ==
  IF cps = <<>> THEN <<>> ELSE Utf8(cps[1]) \o Utf8String(Tail(cps))

\* one unit per character: the documented encoding of its low eight bits
RECURSIVE LowBytesEncoded(_)
LowBytesEncoded(cps) ==
  IF cps = <<>> THEN <<>>
  ELSE ByteEncoding(cps[1] % 256) \o LowBytesEncoded(Tail(cps))

\* C26: percentEncode goes through its input character by character and
\* keeps the low eight bits of each: a character c of 256 or more is encoded
\* as the single byte c mod 256 would be (unescaped when that byte is
\* unreserved, U+0141 giving "A"; %252C when it is 0x2C), one unit per
\* character and not one %XX triple per byte of its UTF-8 encoding.
C26_LowEightBits ==
  last.call = "percentEncode" =>
    \A cps \in UNION {[1..n -> CodePoints] : n \in 0..MaxEncodeLen} :
      args[1] = Utf8String(cps) =>
        /\ text = LowBytesEncoded(cps)
        /\ (\E i \in 1..Len(cps) : cps[i] >= 256) => text /= BytesEncoded(args[1])
        /\ cps = <<321>> => text = <<65>>
        /\ cps = <<300>> => text = <<37, 50, 53, 50, 67>>

\* C26 witness: U+012C, two bytes in UTF-8, was encoded as %252C.
C26_Witness ==
  /\ last.call = "percentEncode"
  /\ args[1] = <<196, 172>>
  /\ text = <<37, 50, 53, 50, 67>>

\* C27: when the GET of SearchQuery fails, the transport giving an error
\* and no response, SearchQuery returns no result and an error that tells of
\* the HTTP failure; it does not touch the response it was not given and
\* does not crash: every call of SearchQuery returns, with an error or with
\* businesses.
C27_GetFailureReturned ==
  last.call = "SearchQuery" => ret \in {"error", "businesses"}

\* the options are valid and of pairwise different categories
DifferentCategories(options) ==
  /\ \A i \in 1..Len(options) : ValidPayload(options[i])
  /\ \A i, j \in 1..Len(options) :
       i /= j => FlagOf(options[i].kind) /= FlagOf(options[j].kind)

\* C28: valid options of pairwise different categories applied to a fresh
\* container in two orders and signed with one nonce and timestamp leave the
\* same sorted serialization before the signature, and so the same base
\* string (the same signature) and the same final query string.
C28_OrderIndependent ==
  (/\ runs[1].done /\ runs[2].done
   /\ DifferentCategories(runs[1].options)
   /\ SameBag(runs[1].options, runs[2].options)
   /\ runs[1].nonce = runs[2].nonce
   /\ runs[1].now = runs[2].now) =>
    \A a \in {runs[1].out}, b \in {runs[2].out} :
      /\ Len(a) = Len(runs[1].elements) + 6
      /\ NamesSorted(SubSeq(a, 1, Len(a) - 1))
      /\ SubSeq(a, 1, Len(a) - 1) = SubSeq(b, 1, Len(b) - 1)
      /\ SignatureOf(a) = SignatureOf(b)
      /\ PairsJoined(a) = PairsJoined(b)

\* C28 witness: Limit(1), Sort(distance) and LocationWithHint were applied
\* in that order and in the reverse order, the containers built differing,
\* and signed with one nonce.
C28_Witness ==
  /\ runs[1].done /\ runs[2].done
  /\ runs[1].options = <<SearchLimit(1), SearchSort(1),
                         SearchLocationCoordinates(<<68, 101, 108, 102, 116>>, 0, 0)>>
  /\ runs[2].options = <<SearchLocationCoordinates(<<68, 101, 108, 102, 116>>, 0, 0),
                         SearchSort(1), SearchLimit(1)>>
  /\ runs[1].elements /= runs[2].elements
  /\ runs[1].nonce = runs[2].nonce
  /\ Len(runs[1].out) = 10
  /\ runs[1].out = runs[2].out

\* sq holds an element of that name
HasElement(sq, name) == \E i \in 1..Len(Elements(sq)) : Elements(sq)[i].Name = name

\* C29: in every state reached from an empty container by option
\* applications alone, successful or failing, each of the flags term, limit,
\* offset, sort, category filter, radius and deals is set iff an element of
\* its wire key is present; the location flag is set iff an element named
\* location, ll or bounds is present; and a cll element is present only
\* together with a location element and the location flag.
C29_FlagsMatchElements ==
  ~manual =>
    /\ \A kind \in OtherKinds : FlagSet(q, kind) <=> HasElement(q, WireKey(kind))
    /\ MaskHas(q.mask, searchBitMaskLocation) <=>
         \/ HasElement(q, <<108, 111, 99, 97, 116, 105, 111, 110>>)
         \/ HasElement(q, <<108, 108>>)
         \/ HasElement(q, <<98, 111, 117, 110, 100, 115>>)
    /\ HasElement(q, <<99, 108, 108>>) =>
         /\ HasElement(q, <<108, 111, 99, 97, 116, 105, 111, 110>>)
         /\ MaskHas(q.mask, searchBitMaskLocation)

====
